---- MODULE Spec2Model ----
(***************************************************************************)
(* State-machine model of the VK form-intake bot (repository xttqd/vkbot). *)
(*                                                                         *)
(*   src/bot/form_handler.py  FormHandler: per-user form sessions,         *)
(*                            validation, ticket creation and deletion     *)
(*   src/bot/db_handler.py    DatabaseHandler: the SQLite table "tickets"  *)
(*   src/bot/handlers.py      BotHandlers: the message handlers and their  *)
(*                            registration order (the router)              *)
(*   src/bot/config.py        texts and the form field names               *)
(*                                                                         *)
(* One step of the model is the handling of one incoming message by the    *)
(* handler that the registration order of BotHandlers.register_handlers    *)
(* selects, every call that handler makes included.  A call from one       *)
(* layer into the next (handler -> FormHandler -> DatabaseHandler) is the  *)
(* execution of the callee's body and yields the value it returns.         *)
(*                                                                         *)
(* The handled message, what the bot held when it arrived, the handlers    *)
(* and FormHandler methods that ran for it, its reply and its admin        *)
(* notification are kept until the reply has gone out (Deliver); the next  *)
(* message is handled after that.                                          *)
(*                                                                         *)
(* User 1 sends every kind of text; the other users start forms, create    *)
(* tickets and try to delete.                                              *)
(*                                                                         *)
(* A text (str) is a sequence of Unicode code points, so that strip(),     *)
(* isdigit(), len(), the regular expressions and the substring tests are   *)
(* computed on the characters as Python computes them.  A dict is a        *)
(* sequence of <<key, value>> pairs in insertion order.                    *)
(***************************************************************************)
EXTENDS Integers, Sequences, FiniteSets, TLC

\* ------------------------------------------------------------------ bounds
\* number of users (VK user ids 1..NumUsers)
NumUsers == 2
\* the clock (whole seconds since the epoch of the model) runs 0..MaxTime
MaxTime == 1
\* the form is built from the first NumFields field names of config.py
NumFields == 2
\* the table "tickets" holds at most MaxRows rows: an INSERT into a full
\* database fails with sqlite3.Error (the disk is full)
MaxRows == 2
\* the database file found when the bot starts holds at most MaxList tickets
\* of user 1, written by earlier runs of the bot
MaxList == 6
\* at most MaxTasks create_ticket coroutines are suspended at a time
MaxTasks == 2

Users == 1..NumUsers

\* ------------------------------------------------------- str, as Python has it
\* str.isspace() of one character
IsSpace(c) == c \in {9, 10, 11, 12, 13, 28, 29, 30, 31, 32, 133, 160}

\* str.isdigit() of one character (the decimal digits "0".."9")
IsDigitChar(c) == c \in 48..57

\* \w of the re module on str: letters, digits and the underscore
\* (Latin and Cyrillic letters are the letters the texts of the model use)
IsWordChar(c) ==
    \/ c \in 48..57
    \/ c \in 65..90
    \/ c \in 97..122
    \/ c = 95
    \/ c \in 1024..1279

\* str.lower() of one character (Latin A-Z, Cyrillic U+0410..U+042F and U+0400..U+040F)
LowerChar(c) ==
    IF c \in 65..90 THEN c + 32
    ELSE IF c \in 1040..1071 THEN c + 32
    ELSE IF c \in 1024..1039 THEN c + 80
    ELSE c

lower(s) == [i \in 1..Len(s) |-> LowerChar(s[i])]

RECURSIVE lstrip(_)
lstrip(s) == IF s # <<>> /\ IsSpace(Head(s)) THEN lstrip(Tail(s)) ELSE s

RECURSIVE rstrip(_)
rstrip(s) ==
    IF s # <<>> /\ IsSpace(s[Len(s)]) THEN rstrip(SubSeq(s, 1, Len(s) - 1)) ELSE s

\* str.strip()
strip(s) == rstrip(lstrip(s))

\* str.isdigit(): non-empty and every character a digit
isdigit(s) == s # <<>> /\ \A i \in 1..Len(s) : IsDigitChar(s[i])

\* needle in hay (substring test)
Contains(hay, needle) ==
    \E i \in 0..(Len(hay) - Len(needle)) :
        \A j \in 1..Len(needle) : hay[i + j] = needle[j]

\* str.startswith
startswith(s, prefix) ==
    /\ Len(prefix) <= Len(s)
    /\ \A j \in 1..Len(prefix) : s[j] = prefix[j]

\* int(s) of a string of decimal digits
RECURSIVE int(_)
int(s) == IF s = <<>> THEN 0 ELSE 10 * int(SubSeq(s, 1, Len(s) - 1)) + (s[Len(s)] - 48)

\* str(n) of a natural number
RECURSIVE str(_)
str(n) == IF n < 10 THEN <<48 + n>> ELSE str(n \div 10) \o <<48 + (n % 10)>>

\* s.split("_"): the parts between the underscores (U+005F)
RECURSIVE split_underscore(_, _)
split_underscore(s, acc) ==
    IF s = <<>> THEN <<acc>>
    ELSE IF Head(s) = 95 THEN <<acc>> \o split_underscore(Tail(s), <<>>)
    ELSE split_underscore(Tail(s), Append(acc, Head(s)))

\* re.sub(r"\\D", "", s): the pattern is a backslash followed by "D", so the
\* two-character sequence \D is removed, left to right, nothing else
RECURSIVE re_sub_backslash_D(_)
re_sub_backslash_D(s) ==
    IF Len(s) >= 2 /\ s[1] = 92 /\ s[2] = 68 THEN re_sub_backslash_D(SubSeq(s, 3, Len(s)))
    ELSE IF s = <<>> THEN <<>>
    ELSE <<Head(s)>> \o re_sub_backslash_D(Tail(s))

\* the character class [\w\\.-] of the e-mail pattern
IsEmailClassChar(c) == IsWordChar(c) \/ c = 92 \/ c = 46 \/ c = 45

\* re.match(r"^[\w\\.-]+@[\w\\.-]+\\.\\w+$", s): one or more class characters,
\* "@", one or more class characters, a backslash, any character but a newline,
\* a backslash, one or more "w", the end (or a final newline)
re_match_email(s) ==
    \E n \in {Len(s), Len(s) - 1} :
      /\ n >= 0
      /\ (n = Len(s) - 1 => s[Len(s)] = 10)
      /\ \E i \in 2..n : \E j \in (i + 2)..(n - 3) :
            /\ \A k \in 1..(i - 1) : IsEmailClassChar(s[k])
            /\ s[i] = 64
            /\ \A k \in (i + 1)..(j - 1) : IsEmailClassChar(s[k])
            /\ s[j] = 92
            /\ s[j + 1] # 10
            /\ s[j + 2] = 92
            /\ \A k \in (j + 3)..n : s[k] = 119

\* -------------------------------------------------------------- config.py
\* FORM_FIELDS_CONFIG[k]["name"], k = 0..6
\* "Ваше имя"
FIELD_NAME == <<1042, 1072, 1096, 1077, 32, 1080, 1084, 1103>>
\* "Электронная почта"
FIELD_EMAIL == <<1069, 1083, 1077, 1082, 1090, 1088, 1086, 1085, 1085, 1072, 1103, 32, 1087, 1086, 1095, 1090, 1072>>
\* "Номер телефона"
FIELD_PHONE == <<1053, 1086, 1084, 1077, 1088, 32, 1090, 1077, 1083, 1077, 1092, 1086, 1085, 1072>>
\* "Название компании"
FIELD_COMPANY == <<1053, 1072, 1079, 1074, 1072, 1085, 1080, 1077, 32, 1082, 1086, 1084, 1087, 1072, 1085, 1080, 1080>>
\* "Сайт/CRM-система/Мобильное приложение/Другое"
FIELD_PROJECT == <<1057, 1072, 1081, 1090, 47, 67, 82, 77, 45, 1089, 1080, 1089, 1090, 1077, 1084, 1072, 47, 1052, 1086, 1073, 1080, 1083, 1100, 1085, 1086, 1077, 32, 1087, 1088, 1080, 1083, 1086, 1078, 1077, 1085, 1080, 1077, 47, 1044, 1088, 1091, 1075, 1086, 1077>>
\* "Краткое описание"
FIELD_DESCRIPTION == <<1050, 1088, 1072, 1090, 1082, 1086, 1077, 32, 1086, 1087, 1080, 1089, 1072, 1085, 1080, 1077>>
\* "Дополнительная информация"
FIELD_EXTRA == <<1044, 1086, 1087, 1086, 1083, 1085, 1080, 1090, 1077, 1083, 1100, 1085, 1072, 1103, 32, 1080, 1085, 1092, 1086, 1088, 1084, 1072, 1094, 1080, 1103>>

\* config.FORM_FIELDS: the field names of FORM_FIELDS_CONFIG, in order
FORM_FIELDS ==
    <<FIELD_NAME, FIELD_EMAIL, FIELD_PHONE, FIELD_COMPANY, FIELD_PROJECT,
      FIELD_DESCRIPTION, FIELD_EXTRA>>

\* FormHandler.form_fields: the list the handler is constructed with
form_fields == SubSeq(FORM_FIELDS, 1, NumFields)

\* the keywords validate_field looks for in the lower-cased field name
\* "имя"
KW_NAME == <<1080, 1084, 1103>>
\* "почта"
KW_MAIL == <<1087, 1086, 1095, 1090, 1072>>
\* "email"
KW_EMAIL == <<101, 109, 97, 105, 108>>
\* "телефон"
KW_PHONE == <<1090, 1077, 1083, 1077, 1092, 1086, 1085>>
\* "компани"
KW_COMPANY == <<1082, 1086, 1084, 1087, 1072, 1085, 1080>>
\* "организац"
KW_ORG == <<1086, 1088, 1075, 1072, 1085, 1080, 1079, 1072, 1094>>
\* "описание"
KW_DESCR == <<1086, 1087, 1080, 1089, 1072, 1085, 1080, 1077>>

\* the texts the handlers are registered for (BotHandlers.register_handlers)
\* "Начать"
TXT_START_RU == <<1053, 1072, 1095, 1072, 1090, 1100>>
\* "start"
TXT_START == <<115, 116, 97, 114, 116>>
\* "/start"
TXT_SLASH_START == <<47, 115, 116, 97, 114, 116>>
\* "Заполнить заявку"
TXT_FORM_START == <<1047, 1072, 1087, 1086, 1083, 1085, 1080, 1090, 1100, 32, 1079, 1072, 1103, 1074, 1082, 1091>>
\* "Отмена"
TXT_CANCEL == <<1054, 1090, 1084, 1077, 1085, 1072>>
\* "Отправить"
TXT_SUBMIT == <<1054, 1090, 1087, 1088, 1072, 1074, 1080, 1090, 1100>>
\* "Мои заявки"
TXT_TICKETS == <<1052, 1086, 1080, 32, 1079, 1072, 1103, 1074, 1082, 1080>>
\* "Удалить заявку"
TXT_DELETE == <<1059, 1076, 1072, 1083, 1080, 1090, 1100, 32, 1079, 1072, 1103, 1074, 1082, 1091>>
\* "Подтвердить удаление"
TXT_CONFIRM_DELETE == <<1055, 1086, 1076, 1090, 1074, 1077, 1088, 1076, 1080, 1090, 1100, 32, 1091, 1076, 1072, 1083, 1077, 1085, 1080, 1077>>
\* "dev/create_random_ticket"
TXT_DEV_CREATE == <<100, 101, 118, 47, 99, 114, 101, 97, 116, 101, 95, 114, 97, 110, 100, 111, 109, 95, 116, 105, 99, 107, 101, 116>>
\* "dev/test_ticket"
TXT_DEV_TEST == <<100, 101, 118, 47, 116, 101, 115, 116, 95, 116, 105, 99, 107, 101, 116>>
\* r"^\d+_\d+$"
TXT_TICKET_ID_PATTERN == <<94, 92, 100, 43, 95, 92, 100, 43, 36>>
\* r"^\d+$"
TXT_TICKET_INDEX_PATTERN == <<94, 92, 100, 43, 36>>

\* ------------------------------------------------- the texts users send
\* "" (a message without text, such as a sticker)
S_EMPTY == <<>>
\* "A"
S_A == <<65>>
\* " a@b\.\w " (it matches the pattern re.match is given for the e-mail field)
S_MAILRX == <<32, 97, 64, 98, 92, 46, 92, 119, 32>>
\* "+79001234567"
S_PHONE == <<43, 55, 57, 48, 48, 49, 50, 51, 52, 53, 54, 55>>
\* " 1"
S_PAD1 == <<32, 49>>

\* config.CONFIRM_DELETE_PHRASES: "удалить", "да", "да, удалить",
\* "подтвердить", "подтверждаю", "подтвердить удаление"
CONFIRM_DELETE_PHRASES ==
    {<<1091, 1076, 1072, 1083, 1080, 1090, 1100>>,
     <<1076, 1072>>,
     <<1076, 1072, 44, 32, 1091, 1076, 1072, 1083, 1080, 1090, 1100>>,
     <<1087, 1086, 1076, 1090, 1074, 1077, 1088, 1076, 1080, 1090, 1100>>,
     <<1087, 1086, 1076, 1090, 1074, 1077, 1088, 1078, 1076, 1072, 1102>>,
     <<1087, 1086, 1076, 1090, 1074, 1077, 1088, 1076, 1080, 1090, 1100, 32, 1091, 1076, 1072, 1083, 1077, 1085, 1080, 1077>>}
\* config.CANCEL_PHRASES: "отмена", "нет", "не удалять", "стоп"
CANCEL_PHRASES ==
    {<<1086, 1090, 1084, 1077, 1085, 1072>>,
     <<1085, 1077, 1090>>,
     <<1085, 1077, 32, 1091, 1076, 1072, 1083, 1103, 1090, 1100>>,
     <<1089, 1090, 1086, 1087>>}
\* "Да"
S_YES == <<1044, 1072>>
\* "нет"
S_NO == <<1085, 1077, 1090>>

\* f"{user_id}_{int(datetime.now().timestamp())}"
TicketId(user_id, ts) == str(user_id) \o <<95>> \o str(ts)

\* the texts of the incoming messages of user 1: every registered command,
\* the list positions 0..MaxTime+2, a ticket ID of every other user, and free
\* texts that are valid and invalid answers of the form fields
Texts ==
    {TXT_START_RU, TXT_FORM_START, TXT_CANCEL, TXT_SUBMIT, TXT_TICKETS,
     TXT_DELETE, TXT_CONFIRM_DELETE, TXT_DEV_TEST}
    \cup {str(k) : k \in 0..(MaxTime + 2)}
    \cup {TicketId(u, 0) : u \in Users \ {1}}
    \cup {S_EMPTY, S_A, S_MAILRX, S_PAD1}
    \cup (IF NumFields >= 3 THEN {S_PHONE} ELSE {})

\* ------------------------------------------------------------------ state
VARIABLES
    user_forms,          \* FormHandler.user_forms[user_id]: the form sessions
    last_viewed_ticket,  \* FormHandler.user_forms['last_viewed_ticket'][user_id]
    delete_pending,      \* FormHandler.user_forms['delete_pending'][user_id]
    user_tickets,        \* FormHandler.user_tickets[user_id]: the cached ticket index
    user_states,         \* FormHandler.user_states[user_id][key]
    awaiting,            \* the create_ticket coroutines suspended at their await
    tickets,             \* the rows of the table "tickets"
    now,                 \* datetime.now(), in whole seconds
    text_rule,           \* how bot.on.message(text=...) reads its patterns
    msg,                 \* the message handled by the last step
    pre,                 \* what the bot held when that message arrived
    ran,                 \* the handlers and FormHandler methods the last step ran
    reply,               \* the message.answer(...) of the last step
    notified             \* the admin notification of the last step

vars ==
    <<user_forms, last_viewed_ticket, delete_pending, user_tickets, tickets,
      now, text_rule, msg, pre, ran, reply, notified, user_states, awaiting>>

\* ------------------------------------------------------------ dict and list
\* d[key] = value
DictSet(d, key, value) ==
    IF \E i \in 1..Len(d) : d[i][1] = key
    THEN [i \in 1..Len(d) |-> IF d[i][1] = key THEN <<key, value>> ELSE d[i]]
    ELSE Append(d, <<key, value>>)

\* del m[key] of a map with key in it
MapDel(m, key) == [k \in (DOMAIN m) \ {key} |-> m[k]]

\* m[key] = value
MapSet(m, key, value) == [k \in (DOMAIN m) \cup {key} |-> IF k = key THEN value ELSE m[k]]

\* x in l
InList(l, x) == \E i \in 1..Len(l) : l[i] = x

\* l.remove(x): the first occurrence of x is taken out
RECURSIVE list_remove(_, _)
list_remove(l, x) ==
    IF l = <<>> THEN <<>>
    ELSE IF Head(l) = x THEN Tail(l)
    ELSE <<Head(l)>> \o list_remove(Tail(l), x)

\* ----------------------------------------------------- src/bot/db_handler.py
\* json.dumps(form_data, ensure_ascii=False): the JSON object text, its members
\* in the insertion order of the dict
json_dumps(form_data) == [json |-> form_data]

\* json.loads(text)
json_loads(text) == text.json

\* the rows WHERE ticket_id = ?
SelectById(table, ticket_id) == {r \in table : r.ticket_id = ticket_id}

\* dict(row) with form_data decoded
DecodeRow(r) == [r EXCEPT !.form_data = json_loads(@)]

\* db_create_ticket with INSERT OR REPLACE: a row under the ticket ID is
\* overwritten
db_create_ticket_overwriting(table, ticket_id, user_id, form_data, created_at, db_ok) ==
    IF db_ok /\ Cardinality(table \ SelectById(table, ticket_id)) < MaxRows
    THEN [table |-> (table \ SelectById(table, ticket_id)) \cup
                      {[ticket_id |-> ticket_id, user_id |-> user_id,
                        created_at |-> created_at,
                        form_data |-> json_dumps(form_data)]},
          result |-> TRUE]
    ELSE [table |-> table, result |-> FALSE]

\* DatabaseHandler.create_ticket: the INSERT fails when the primary key
\* ticket_id is taken, when the database is full, or with any other
\* sqlite3.Error (db_ok = FALSE)
db_create_ticket(table, ticket_id, user_id, form_data, created_at, db_ok) ==
    IF db_ok /\ SelectById(table, ticket_id) = {} /\ Cardinality(table) < MaxRows
    THEN [table |-> table \cup
                      {[ticket_id |-> ticket_id, user_id |-> user_id,
                        created_at |-> created_at,
                        form_data |-> json_dumps(form_data)]},
          result |-> TRUE]
    ELSE [table |-> table, result |-> FALSE]

\* DatabaseHandler.get_ticket: None is the empty set, a ticket a singleton
db_get_ticket(table, ticket_id, db_ok) ==
    IF db_ok THEN {DecodeRow(r) : r \in SelectById(table, ticket_id)} ELSE {}

\* db_get_all_tickets with ORDER BY created_at ASC
db_get_all_tickets_oldest_first(table, user_id, db_ok) ==
    IF ~db_ok THEN {<<>>}
    ELSE LET rows == {r \in table : r.user_id = user_id}
             n == Cardinality(rows)
         IN {[i \in 1..n |-> DecodeRow(s[i])] :
                s \in {q \in [1..n -> rows] :
                         /\ \A i, j \in 1..n : i # j => q[i] # q[j]
                         /\ \A i, j \in 1..n :
                               i < j => q[i].created_at <= q[j].created_at}}

\* DatabaseHandler.get_all_tickets(user_id): the rows of the user ORDER BY
\* created_at DESC; rows with equal created_at come in any order, so the
\* result is one of a set of lists; [] on sqlite3.Error
db_get_all_tickets(table, user_id, db_ok) ==
    IF ~db_ok THEN {<<>>}
    ELSE LET rows == {r \in table : r.user_id = user_id}
             n == Cardinality(rows)
         IN {[i \in 1..n |-> DecodeRow(s[i])] :
                s \in {q \in [1..n -> rows] :
                         /\ \A i, j \in 1..n : i # j => q[i] # q[j]
                         /\ \A i, j \in 1..n :
                               i < j => q[i].created_at >= q[j].created_at}}

\* db_delete_ticket that counts the rows and returns without the DELETE
db_delete_ticket_counting_only(table, ticket_id, user_id, db_ok) ==
    LET mine == {r \in table : r.ticket_id = ticket_id /\ r.user_id = user_id}
    IN [table |-> table, result |-> db_ok /\ mine # {}]

\* db_delete_ticket that selects and deletes by the ticket ID alone
db_delete_ticket_by_id_alone(table, ticket_id, user_id, db_ok) ==
    LET found == {r \in table : r.ticket_id = ticket_id}
    IN IF db_ok /\ found # {}
       THEN [table |-> table \ found, result |-> TRUE]
       ELSE [table |-> table, result |-> FALSE]

\* db_delete_ticket with the WHERE clause of the DELETE left out
db_delete_ticket_without_where(table, ticket_id, user_id, db_ok) ==
    LET mine == {r \in table : r.ticket_id = ticket_id /\ r.user_id = user_id}
    IN IF db_ok /\ mine # {}
       THEN [table |-> {}, result |-> TRUE]
       ELSE [table |-> table, result |-> FALSE]

\* db_delete_ticket with DELETE ... WHERE user_id = ?: every row of the user
\* goes
db_delete_ticket_of_the_owner(table, ticket_id, user_id, db_ok) ==
    LET mine == {r \in table : r.ticket_id = ticket_id /\ r.user_id = user_id}
    IN IF db_ok /\ mine # {}
       THEN [table |-> {r \in table : r.user_id # user_id}, result |-> TRUE]
       ELSE [table |-> table, result |-> FALSE]

\* DatabaseHandler.delete_ticket: SELECT COUNT(*) ... WHERE ticket_id = ? AND
\* user_id = ?, then DELETE ... WHERE ticket_id = ? AND user_id = ?
db_delete_ticket(table, ticket_id, user_id, db_ok) ==
    LET mine == {r \in table : r.ticket_id = ticket_id /\ r.user_id = user_id}
    IN IF db_ok /\ mine # {}
       THEN [table |-> table \ mine, result |-> TRUE]
       ELSE [table |-> table, result |-> FALSE]

\* --------------------------------------------------- src/bot/form_handler.py
\* what get_current_question returns
Q_NO_FORM == [kind |-> "no_form", field |-> <<>>]
Q_COMPLETE == [kind |-> "FORM_ALL_FIELDS_COMPLETE_MESSAGE", field |-> <<>>]
Q_ASK(field) == [kind |-> "ask", field |-> field]
Q_NONE == [kind |-> "", field |-> <<>>]

\* start_form opening fresh sessions for every user who has one
start_form_resetting_everyone(forms, user_id) ==
    [u \in (DOMAIN forms) \cup {user_id} |->
        [current_field |-> 0,
         data |-> [i \in 1..Len(form_fields) |-> <<form_fields[i], <<>>>>]]]

\* FormHandler.start_form: user_forms after it
start_form(forms, user_id) ==
    MapSet(forms, user_id,
           [current_field |-> 0,
            data |-> [i \in 1..Len(form_fields) |-> <<form_fields[i], <<>>>>]])

\* FormHandler.get_current_question
get_current_question(forms, user_id) ==
    IF user_id \notin DOMAIN forms THEN Q_NO_FORM
    ELSE IF forms[user_id].current_field >= Len(form_fields) THEN Q_COMPLETE
    ELSE Q_ASK(form_fields[forms[user_id].current_field + 1])

\* FormHandler.validate_field: <<is_valid, error message>>
validate_field(field_name, raw_value) ==
    LET value == strip(raw_value)
        field_lower == lower(field_name)
        error_msg ==
            IF Contains(field_lower, KW_NAME) /\ Len(value) < 2
              THEN "ERROR_NAME_TOO_SHORT"
            ELSE IF (Contains(field_lower, KW_MAIL) \/ Contains(field_lower, KW_EMAIL))
                    /\ ~re_match_email(value)
              THEN "ERROR_INVALID_EMAIL"
            ELSE IF Contains(field_lower, KW_PHONE)
              THEN (IF ~(10 <= Len(re_sub_backslash_D(value))
                         /\ Len(re_sub_backslash_D(value)) <= 15)
                    THEN "ERROR_INVALID_PHONE" ELSE "")
            ELSE IF (Contains(field_lower, KW_COMPANY) \/ Contains(field_lower, KW_ORG))
                    /\ Len(value) < 3
              THEN "ERROR_COMPANY_NAME_TOO_SHORT"
            ELSE IF Contains(field_lower, KW_DESCR) /\ Len(value) < 10
              THEN "ERROR_DESCRIPTION_TOO_SHORT"
            ELSE ""
    IN IF value = <<>> THEN <<FALSE, "ERROR_FIELD_EMPTY">>
       ELSE IF error_msg # "" THEN <<FALSE, error_msg>>
       ELSE <<TRUE, "">>

\* process_answer without form["current_field"] += 1
process_answer_without_increment(forms, user_id, answer) ==
    IF user_id \notin DOMAIN forms
    THEN [user_forms |-> forms, error |-> "", question |-> Q_NO_FORM]
    ELSE
      LET form == forms[user_id]
          current_field_idx == form.current_field
      IN IF current_field_idx >= Len(form_fields)
         THEN [user_forms |-> forms, error |-> "", question |-> Q_COMPLETE]
         ELSE
           LET current_field == form_fields[current_field_idx + 1]
               v == validate_field(current_field, answer)
               after == [forms EXCEPT ![user_id] =
                           [current_field |-> current_field_idx,
                            data |-> DictSet(form.data, current_field, strip(answer))]]
           IN IF ~v[1]
              THEN [user_forms |-> forms, error |-> v[2],
                    question |-> get_current_question(forms, user_id)]
              ELSE [user_forms |-> after, error |-> "",
                    question |-> get_current_question(after, user_id)]

\* process_answer counting an answer that is given to a complete form
process_answer_counting_past_the_end(forms, user_id, answer) ==
    IF user_id \notin DOMAIN forms
    THEN [user_forms |-> forms, error |-> "", question |-> Q_NO_FORM]
    ELSE
      LET form == forms[user_id]
          current_field_idx == form.current_field
      IN IF current_field_idx >= Len(form_fields)
         THEN [user_forms |->
                  [forms EXCEPT ![user_id].current_field = current_field_idx + 1],
               error |-> "", question |-> Q_COMPLETE]
         ELSE
           LET current_field == form_fields[current_field_idx + 1]
               v == validate_field(current_field, answer)
               after == [forms EXCEPT ![user_id] =
                           [current_field |-> current_field_idx + 1,
                            data |-> DictSet(form.data, current_field, strip(answer))]]
           IN IF ~v[1]
              THEN [user_forms |-> forms, error |-> v[2],
                    question |-> get_current_question(forms, user_id)]
              ELSE [user_forms |-> after, error |-> "",
                    question |-> get_current_question(after, user_id)]

\* process_answer storing the answer before it validates it
process_answer_storing_first(forms, user_id, answer) ==
    IF user_id \notin DOMAIN forms
    THEN [user_forms |-> forms, error |-> "", question |-> Q_NO_FORM]
    ELSE
      LET form == forms[user_id]
          current_field_idx == form.current_field
      IN IF current_field_idx >= Len(form_fields)
         THEN [user_forms |-> forms, error |-> "", question |-> Q_COMPLETE]
         ELSE
           LET current_field == form_fields[current_field_idx + 1]
               v == validate_field(current_field, answer)
               stored == [forms EXCEPT ![user_id].data =
                            DictSet(form.data, current_field, strip(answer))]
               after == [stored EXCEPT ![user_id].current_field = current_field_idx + 1]
           IN IF ~v[1]
              THEN [user_forms |-> stored, error |-> v[2],
                    question |-> get_current_question(stored, user_id)]
              ELSE [user_forms |-> after, error |-> "",
                    question |-> get_current_question(after, user_id)]

\* process_answer storing the answer as it was sent, without strip()
process_answer_storing_untrimmed(forms, user_id, answer) ==
    IF user_id \notin DOMAIN forms
    THEN [user_forms |-> forms, error |-> "", question |-> Q_NO_FORM]
    ELSE
      LET form == forms[user_id]
          current_field_idx == form.current_field
      IN IF current_field_idx >= Len(form_fields)
         THEN [user_forms |-> forms, error |-> "", question |-> Q_COMPLETE]
         ELSE
           LET current_field == form_fields[current_field_idx + 1]
               v == validate_field(current_field, answer)
               after == [forms EXCEPT ![user_id] =
                           [current_field |-> current_field_idx + 1,
                            data |-> DictSet(form.data, current_field, answer)]]
           IN IF ~v[1]
              THEN [user_forms |-> forms, error |-> v[2],
                    question |-> get_current_question(forms, user_id)]
              ELSE [user_forms |-> after, error |-> "",
                    question |-> get_current_question(after, user_id)]

\* process_answer opening a session for a user who has none
process_answer_opening_a_session(forms, user_id, answer) ==
    IF user_id \notin DOMAIN forms
    THEN [user_forms |-> start_form(forms, user_id), error |-> "",
          question |-> get_current_question(start_form(forms, user_id), user_id)]
    ELSE
      LET form == forms[user_id]
          current_field_idx == form.current_field
      IN IF current_field_idx >= Len(form_fields)
         THEN [user_forms |-> forms, error |-> "", question |-> Q_COMPLETE]
         ELSE
           LET current_field == form_fields[current_field_idx + 1]
               v == validate_field(current_field, answer)
               after == [forms EXCEPT ![user_id] =
                           [current_field |-> current_field_idx + 1,
                            data |-> DictSet(form.data, current_field, strip(answer))]]
           IN IF ~v[1]
              THEN [user_forms |-> forms, error |-> v[2],
                    question |-> get_current_question(forms, user_id)]
              ELSE [user_forms |-> after, error |-> "",
                    question |-> get_current_question(after, user_id)]

\* FormHandler.process_answer: user_forms after it and the text it returns
\* (the error message, if any, and the question that follows it)
process_answer(forms, user_id, answer) ==
    IF user_id \notin DOMAIN forms
    THEN [user_forms |-> forms, error |-> "", question |-> Q_NO_FORM]
    ELSE
      LET form == forms[user_id]
          current_field_idx == form.current_field
      IN IF current_field_idx >= Len(form_fields)
         THEN [user_forms |-> forms, error |-> "", question |-> Q_COMPLETE]
         ELSE
           LET current_field == form_fields[current_field_idx + 1]
               v == validate_field(current_field, answer)
               after == [forms EXCEPT ![user_id] =
                           [current_field |-> current_field_idx + 1,
                            data |-> DictSet(form.data, current_field, strip(answer))]]
           IN IF ~v[1]
              THEN [user_forms |-> forms, error |-> v[2],
                    question |-> get_current_question(forms, user_id)]
              ELSE [user_forms |-> after, error |-> "",
                    question |-> get_current_question(after, user_id)]

\* cancel_form closing the form sessions of all users
cancel_form_of_everyone(forms, user_id) == <<>>

\* FormHandler.cancel_form: user_forms after it
cancel_form(forms, user_id) ==
    IF user_id \in DOMAIN forms THEN MapDel(forms, user_id) ELSE forms

\* is_form_complete true of every open session
is_form_complete_of_any_session(forms, user_id) == user_id \in DOMAIN forms

\* FormHandler.is_form_complete
is_form_complete(forms, user_id) ==
    IF user_id \notin DOMAIN forms THEN FALSE
    ELSE forms[user_id].current_field >= Len(form_fields)

\* create_ticket without del self.user_forms[user_id]
create_ticket_keeping_session(forms, table, user_id, ts, db_ok) ==
    IF ~is_form_complete(forms, user_id)
    THEN [user_forms |-> forms, tickets |-> table, result |-> <<>>]
    ELSE
      LET form_data == forms[user_id].data
          ticket_id == TicketId(user_id, ts)
          db == db_create_ticket(table, ticket_id, user_id, form_data, ts, db_ok)
      IN IF db.result
         THEN [user_forms |-> forms, tickets |-> db.table, result |-> ticket_id]
         ELSE [user_forms |-> forms, tickets |-> db.table, result |-> <<>>]

\* create_ticket returning the ticket ID whatever the database handler
\* returned
create_ticket_returning_the_id(forms, table, user_id, ts, db_ok) ==
    IF ~is_form_complete(forms, user_id)
    THEN [user_forms |-> forms, tickets |-> table, result |-> <<>>]
    ELSE
      LET form_data == forms[user_id].data
          ticket_id == TicketId(user_id, ts)
          db == db_create_ticket(table, ticket_id, user_id, form_data, ts, db_ok)
      IN IF db.result
         THEN [user_forms |-> MapDel(forms, user_id), tickets |-> db.table,
               result |-> ticket_id]
         ELSE [user_forms |-> forms, tickets |-> db.table, result |-> ticket_id]

\* create_ticket deleting the session before the store has answered
create_ticket_dropping_session(forms, table, user_id, ts, db_ok) ==
    IF ~is_form_complete(forms, user_id)
    THEN [user_forms |-> forms, tickets |-> table, result |-> <<>>]
    ELSE
      LET form_data == forms[user_id].data
          ticket_id == TicketId(user_id, ts)
          db == db_create_ticket(table, ticket_id, user_id, form_data, ts, db_ok)
      IN IF db.result
         THEN [user_forms |-> MapDel(forms, user_id), tickets |-> db.table,
               result |-> ticket_id]
         ELSE [user_forms |-> MapDel(forms, user_id), tickets |-> db.table,
               result |-> <<>>]

\* FormHandler.create_ticket: user_forms and the table after it and the value
\* it returns, the ticket ID or None (<<>>)
create_ticket(forms, table, user_id, ts, db_ok) ==
    IF ~is_form_complete(forms, user_id)
    THEN [user_forms |-> forms, tickets |-> table, result |-> <<>>]
    ELSE
      LET form_data == forms[user_id].data
          ticket_id == TicketId(user_id, ts)
          db == db_create_ticket(table, ticket_id, user_id, form_data, ts, db_ok)
      IN IF db.result
         THEN [user_forms |-> MapDel(forms, user_id), tickets |-> db.table,
               result |-> ticket_id]
         ELSE [user_forms |-> forms, tickets |-> db.table, result |-> <<>>]

\* delete_ticket returning True whatever the database handler returned
delete_ticket_reporting_success(cache, table, user_id, ticket_id, db_ok) ==
    LET db == db_delete_ticket(table, ticket_id, user_id, db_ok)
    IN [user_tickets |-> cache, tickets |-> db.table, result |-> TRUE]

\* delete_ticket without "del self.user_tickets[user_id]": an emptied list
\* stays in the cache
delete_ticket_keeping_empty_list(cache, table, user_id, ticket_id, db_ok) ==
    LET db == db_delete_ticket(table, ticket_id, user_id, db_ok)
        removed ==
            IF InList(cache[user_id], ticket_id)
            THEN list_remove(cache[user_id], ticket_id) ELSE cache[user_id]
    IN IF db.result /\ user_id \in DOMAIN cache
       THEN [user_tickets |-> [cache EXCEPT ![user_id] = removed],
             tickets |-> db.table, result |-> db.result]
       ELSE [user_tickets |-> cache, tickets |-> db.table, result |-> db.result]

\* FormHandler.delete_ticket: user_tickets and the table after it and the
\* value it returns
delete_ticket(cache, table, user_id, ticket_id, db_ok) ==
    LET db == db_delete_ticket(table, ticket_id, user_id, db_ok)
        removed ==
            IF InList(cache[user_id], ticket_id)
            THEN list_remove(cache[user_id], ticket_id) ELSE cache[user_id]
    IN IF db.result /\ user_id \in DOMAIN cache
       THEN [user_tickets |->
                IF removed = <<>> THEN MapDel(cache, user_id)
                ELSE [cache EXCEPT ![user_id] = removed],
             tickets |-> db.table, result |-> db.result]
       ELSE [user_tickets |-> cache, tickets |-> db.table, result |-> db.result]

\* ------------------------------------------------------- src/bot/utils.py
\* "Иван"
R_NAME == <<1048, 1074, 1072, 1085>>
\* "иван1@mail.ru"
R_MAIL == <<1080, 1074, 1072, 1085, 49, 64, 109, 97, 105, 108, 46, 114, 117>>
\* "+79000000000"
R_PHONE == <<43, 55, 57, 48, 48, 48, 48, 48, 48, 48, 48, 48>>
\* "ООО Прогресс"
R_COMPANY == <<1054, 1054, 1054, 32, 1055, 1088, 1086, 1075, 1088, 1077, 1089, 1089>>
\* "Сайт"
R_PROJECT == <<1057, 1072, 1081, 1090>>
\* "Нужен современный адаптивный сайт для нашей компании."
R_DESCRIPTION == <<1053, 1091, 1078, 1077, 1085, 32, 1089, 1086, 1074, 1088, 1077, 1084, 1077, 1085, 1085, 1099, 1081, 32, 1072, 1076, 1072, 1087, 1090, 1080, 1074, 1085, 1099, 1081, 32, 1089, 1072, 1081, 1090, 32, 1076, 1083, 1103, 32, 1085, 1072, 1096, 1077, 1081, 32, 1082, 1086, 1084, 1087, 1072, 1085, 1080, 1080, 46>>
\* "Тестовая заявка. Автоматически сгенерирована."
R_EXTRA == <<1058, 1077, 1089, 1090, 1086, 1074, 1072, 1103, 32, 1079, 1072, 1103, 1074, 1082, 1072, 46, 32, 1040, 1074, 1090, 1086, 1084, 1072, 1090, 1080, 1095, 1077, 1089, 1082, 1080, 32, 1089, 1075, 1077, 1085, 1077, 1088, 1080, 1088, 1086, 1074, 1072, 1085, 1072, 46>>

\* generate_random_form_data(): the dicts it can return; random.choice and
\* random.randint are a choice among the sample values
generate_random_form_data ==
    {<< <<FORM_FIELDS[1], name>>, <<FORM_FIELDS[2], R_MAIL>>,
        <<FORM_FIELDS[3], R_PHONE>>, <<FORM_FIELDS[4], R_COMPANY>>,
        <<FORM_FIELDS[5], R_PROJECT>>, <<FORM_FIELDS[6], R_DESCRIPTION>>,
        <<FORM_FIELDS[7], R_EXTRA>> >> : name \in {R_NAME}}

\* ----------------------------------------------------- src/bot/handlers.py
\* message.answer(text, keyboard=...): the text is named by the config constant
\* it is built from, or, for a literal, by one of these names:
\*   DELETE_CANCELLED        "Удаление заявки отменено."
\*   FILL_FORM_FIRST         "Сначала нужно заполнить форму. ..."
\*   ERROR_TICKET_CREATION   "Произошла ошибка при создании заявки. ..."
\*   FORM_NOT_COMPLETE       "Форма еще не заполнена полностью. {question}"
\*   NO_TICKETS              "У вас пока нет заявок. Хотите создать новую?"
\*   TICKET_LIST             "Ваши заявки: ..."
\*   INVALID_TICKET_NUMBER   "Некорректный номер заявки. ..."
\*   TICKET_NOT_FOUND_OR_NO_ACCESS        "Заявка не найдена или у вас нет доступа к ней."
\*   TICKET_NOT_FOUND_OR_NO_DELETE_RIGHT  "Заявка не найдена или у вас нет прав на её удаление."
\*   TICKET_INFO             "Информация о заявке {ticket_id}: ..."
\*   SELECT_TICKET_FIRST     "Пожалуйста, сначала выберите заявку, ..."
\*   CONFIRM_DELETE_PROMPT   "Вы уверены, что хотите удалить заявку {ticket_id}? ..."
\*   NO_PENDING_DELETE       "Не найдено заявок, ожидающих удаления. ..."
\*   TICKET_DELETED          "Заявка {ticket_id} успешно удалена."
\*   ERROR_TICKET_DELETION   "Не удалось удалить заявку. ..."
\*   DEV_TICKET_CREATED      "Создана тестовая заявка {ticket_id}: ..."
\*   DEV_TICKET_ERROR        "Ошибка при создании тестовой заявки."
\*   UNKNOWN_COMMAND         "Неизвестная команда. ..."
\*   next_question           the text process_answer returned
\* error, question, ticket_id and form_data are the parts formatted into it;
\* buttons is the number of numbered buttons on the keyboard of the list
R(text, keyboard) ==
    [text |-> text, keyboard |-> keyboard, error |-> "", question |-> Q_NONE,
     ticket_id |-> <<>>, form_data |-> <<>>, buttons |-> 0]

NO_REPLY == R("", "")

NO_NOTE ==
    [kind |-> "", ticket_id |-> <<>>, user_id |-> 0, form_data |-> <<>>, sent |-> FALSE]

\* BotHandlers.notify_admins_about_new_ticket: the message is sent to the
\* admins unless bot.api.messages.send raises (send_ok = FALSE), which is
\* caught and printed
notify_admins_about_new_ticket(ticket_id, user_id, form_data, send_ok) ==
    [kind |-> "new_ticket", ticket_id |-> ticket_id, user_id |-> user_id,
     form_data |-> form_data, sent |-> send_ok]

\* BotHandlers.notify_admins_about_deleted_ticket
notify_admins_about_deleted_ticket(ticket_id, user_id, send_ok) ==
    [kind |-> "deleted_ticket", ticket_id |-> ticket_id, user_id |-> user_id,
     form_data |-> <<>>, sent |-> send_ok]

\* the rules of register_handlers, tried in the order of registration.
\* bot.on.message(text=[...]) hands each pattern to the text rule of vkbottle,
\* which is not part of src/.  That rule reads a pattern as VBML, where the
\* characters of a regular expression stand for themselves ("vbml": the text
\* matches when it spells the pattern); the two patterns of
\* ticket_info_handler are written as regular expressions, r"^\d+_\d+$" and
\* r"^\d+$" ("regex": the text matches when the expression does).  The model
\* holds both readings: text_rule is one of them from the start.
TextRules == {"vbml", "regex"}

\* re.match(r"^\d+_\d+$", text) or re.match(r"^\d+$", text); $ also matches
\* before a final newline
MatchesTicketPattern(text) ==
    LET body == IF text # <<>> /\ text[Len(text)] = 10
                THEN SubSeq(text, 1, Len(text) - 1) ELSE text
    IN \/ isdigit(body)
       \/ \E i \in 2..(Len(body) - 1) :
             /\ body[i] = 95
             /\ isdigit(SubSeq(body, 1, i - 1))
             /\ isdigit(SubSeq(body, i + 1, Len(body)))

\* the handler register_handlers selects for a text under a reading of the
\* text rule
RouteBy(rule, text) ==
    IF text \in {TXT_START_RU, TXT_START, TXT_SLASH_START} THEN "start_handler"
    ELSE IF text = TXT_FORM_START THEN "form_start_handler"
    ELSE IF text = TXT_CANCEL THEN "cancel_handler"
    ELSE IF text = TXT_SUBMIT THEN "submit_handler"
    ELSE IF text = TXT_TICKETS THEN "tickets_handler"
    ELSE IF IF rule = "regex" THEN MatchesTicketPattern(text)
            ELSE text \in {TXT_TICKET_ID_PATTERN, TXT_TICKET_INDEX_PATTERN}
      THEN "ticket_info_handler"
    ELSE IF text = TXT_DELETE THEN "delete_ticket_handler"
    ELSE IF text = TXT_CONFIRM_DELETE THEN "confirm_delete_handler"
    ELSE IF text \in {TXT_DEV_CREATE, TXT_DEV_TEST} THEN "dev_create_random_ticket"
    ELSE "message_handler"

\* start_handler dropping the form session of the sender
start_handler_dropping_session(user_id, chain) ==
    /\ reply' = R("WELCOME_MESSAGE", "start")
    /\ notified' = NO_NOTE
    /\ ran' = chain \cup {"start_handler"}
    /\ user_forms' = MapDel(user_forms, user_id)
    /\ UNCHANGED <<last_viewed_ticket, delete_pending, user_tickets, tickets, now>>

\* BotHandlers.start_handler
start_handler(user_id, chain) ==
    /\ reply' = R("WELCOME_MESSAGE", "start")
    /\ notified' = NO_NOTE
    /\ ran' = chain \cup {"start_handler"}
    /\ UNCHANGED <<user_forms, last_viewed_ticket, delete_pending, user_tickets,
                   tickets, now>>

\* cancel_handler cancelling the form only
cancel_handler_of_the_form_only(user_id, chain) ==
    /\ notified' = NO_NOTE
    /\ user_forms' = cancel_form(user_forms, user_id)
    /\ reply' = R("CANCEL_MESSAGE", "start")
    /\ ran' = chain \cup {"cancel_handler", "cancel_form"}
    /\ UNCHANGED <<delete_pending, last_viewed_ticket, user_tickets, tickets, now>>

\* cancel_handler cancelling the form as well when it cancels a deletion
cancel_handler_cancelling_both(user_id, chain) ==
    /\ notified' = NO_NOTE
    /\ IF user_id \in DOMAIN delete_pending
       THEN /\ delete_pending' = MapDel(delete_pending, user_id)
            /\ reply' = R("DELETE_CANCELLED", "start")
            /\ ran' = chain \cup {"cancel_handler", "cancel_form"}
            /\ user_forms' = cancel_form(user_forms, user_id)
       ELSE /\ user_forms' = cancel_form(user_forms, user_id)
            /\ reply' = R("CANCEL_MESSAGE", "start")
            /\ ran' = chain \cup {"cancel_handler", "cancel_form"}
            /\ UNCHANGED delete_pending
    /\ UNCHANGED <<last_viewed_ticket, user_tickets, tickets, now>>

\* BotHandlers.cancel_handler
cancel_handler(user_id, chain) ==
    /\ notified' = NO_NOTE
    /\ IF user_id \in DOMAIN delete_pending
       THEN /\ delete_pending' = MapDel(delete_pending, user_id)
            /\ reply' = R("DELETE_CANCELLED", "start")
            /\ ran' = chain \cup {"cancel_handler"}
            /\ UNCHANGED user_forms
       ELSE /\ user_forms' = cancel_form(user_forms, user_id)
            /\ reply' = R("CANCEL_MESSAGE", "start")
            /\ ran' = chain \cup {"cancel_handler", "cancel_form"}
            /\ UNCHANGED delete_pending
    /\ UNCHANGED <<last_viewed_ticket, user_tickets, tickets, now>>

\* submit_handler letting the exception of a failed notification through:
\* the confirmation is not sent
submit_handler_raising_send_failure(user_id, chain) ==
    /\ UNCHANGED <<last_viewed_ticket, delete_pending, user_tickets, now>>
    /\ IF user_id \notin DOMAIN user_forms
       THEN /\ reply' = R("FILL_FORM_FIRST", "start")
            /\ notified' = NO_NOTE
            /\ ran' = chain \cup {"submit_handler"}
            /\ UNCHANGED <<user_forms, tickets>>
       ELSE IF is_form_complete(user_forms, user_id)
       THEN \E db_ok \in BOOLEAN, send_ok \in BOOLEAN :
              LET form_data == user_forms[user_id].data
                  c == create_ticket(user_forms, tickets, user_id, now, db_ok)
              IN /\ user_forms' = c.user_forms
                 /\ tickets' = c.tickets
                 /\ ran' = chain \cup {"submit_handler", "create_ticket"}
                 /\ IF c.result # <<>>
                    THEN /\ notified' = notify_admins_about_new_ticket(
                                            c.result, user_id, form_data, send_ok)
                         /\ reply' = IF send_ok
                                     THEN [R("FORM_COMPLETE_MESSAGE", "start")
                                             EXCEPT !.ticket_id = c.result]
                                     ELSE NO_REPLY
                    ELSE /\ notified' = NO_NOTE
                         /\ reply' = R("ERROR_TICKET_CREATION", "start")
       ELSE /\ reply' = [R("FORM_NOT_COMPLETE", "form")
                           EXCEPT !.question = get_current_question(user_forms, user_id)]
            /\ notified' = NO_NOTE
            /\ ran' = chain \cup {"submit_handler"}
            /\ UNCHANGED <<user_forms, tickets>>

\* BotHandlers.submit_handler
submit_handler(user_id, chain) ==
    /\ UNCHANGED <<last_viewed_ticket, delete_pending, user_tickets, now>>
    /\ IF user_id \notin DOMAIN user_forms
       THEN /\ reply' = R("FILL_FORM_FIRST", "start")
            /\ notified' = NO_NOTE
            /\ ran' = chain \cup {"submit_handler"}
            /\ UNCHANGED <<user_forms, tickets>>
       ELSE IF is_form_complete(user_forms, user_id)
       THEN \E db_ok \in BOOLEAN, send_ok \in BOOLEAN :
              LET form_data == user_forms[user_id].data
                  c == create_ticket(user_forms, tickets, user_id, now, db_ok)
              IN /\ user_forms' = c.user_forms
                 /\ tickets' = c.tickets
                 /\ ran' = chain \cup {"submit_handler", "create_ticket"}
                 /\ IF c.result # <<>>
                    THEN /\ notified' = notify_admins_about_new_ticket(
                                            c.result, user_id, form_data, send_ok)
                         /\ reply' = [R("FORM_COMPLETE_MESSAGE", "start")
                                        EXCEPT !.ticket_id = c.result]
                    ELSE /\ notified' = NO_NOTE
                         /\ reply' = R("ERROR_TICKET_CREATION", "start")
       ELSE /\ reply' = [R("FORM_NOT_COMPLETE", "form")
                           EXCEPT !.question = get_current_question(user_forms, user_id)]
            /\ notified' = NO_NOTE
            /\ ran' = chain \cup {"submit_handler"}
            /\ UNCHANGED <<user_forms, tickets>>

\* the numbered buttons of the list keyboard:
\* for i in range(1, min(len(tickets) + 1, 6))
ticket_list_buttons(n) == (IF n + 1 < 6 THEN n + 1 ELSE 6) - 1

\* BotHandlers.tickets_handler
tickets_handler(user_id, chain) ==
    /\ notified' = NO_NOTE
    /\ ran' = chain \cup {"tickets_handler"}
    /\ UNCHANGED <<user_forms, last_viewed_ticket, delete_pending, tickets, now>>
    /\ \E db_ok \in BOOLEAN :
         \E listed \in db_get_all_tickets(tickets, user_id, db_ok) :
           IF listed = <<>>
           THEN /\ reply' = R("NO_TICKETS", "start")
                /\ UNCHANGED user_tickets
           ELSE /\ user_tickets' =
                      MapSet(user_tickets, user_id,
                             [i \in 1..Len(listed) |-> listed[i].ticket_id])
                /\ reply' = [R("TICKET_LIST", "tickets")
                                EXCEPT !.buttons = ticket_list_buttons(Len(listed))]

\* ticket_info_handler without the comparison of ticket["user_id"] with user_id
ticket_info_handler_without_owner_check(user_id, text, chain) ==
    LET message_text == strip(text)
        by_index == isdigit(message_text) /\ ~Contains(message_text, <<95>>)
        index == int(message_text)
        index_ok ==
            /\ user_id \in DOMAIN user_tickets
            /\ 0 < index
            /\ index <= Len(user_tickets[user_id])
        ticket_id == IF by_index THEN user_tickets[user_id][index] ELSE message_text
    IN /\ notified' = NO_NOTE
       /\ ran' = chain \cup {"ticket_info_handler"}
       /\ UNCHANGED <<user_forms, delete_pending, user_tickets, tickets, now>>
       /\ IF startswith(message_text, TXT_DELETE)
             \/ startswith(message_text, TXT_CONFIRM_DELETE)
          THEN /\ reply' = NO_REPLY
               /\ UNCHANGED last_viewed_ticket
          ELSE IF by_index /\ ~index_ok
          THEN /\ reply' = R("INVALID_TICKET_NUMBER", "start")
               /\ UNCHANGED last_viewed_ticket
          ELSE \E db_ok \in BOOLEAN :
                 LET ticket == db_get_ticket(tickets, ticket_id, db_ok)
                 IN IF ticket = {}
                    THEN /\ reply' = R("TICKET_NOT_FOUND_OR_NO_ACCESS", "start")
                         /\ UNCHANGED last_viewed_ticket
                    ELSE LET t == CHOOSE r \in ticket : TRUE
                         IN /\ last_viewed_ticket' =
                                 MapSet(last_viewed_ticket, user_id, ticket_id)
                            /\ reply' = [R("TICKET_INFO", "ticket_detail")
                                           EXCEPT !.ticket_id = ticket_id,
                                                  !.form_data = t.form_data]

\* ticket_info_handler accepting only the positions that have a button
ticket_info_handler_within_buttons(user_id, text, chain) ==
    LET message_text == strip(text)
        by_index == isdigit(message_text) /\ ~Contains(message_text, <<95>>)
        index == int(message_text)
        index_ok ==
            /\ user_id \in DOMAIN user_tickets
            /\ 0 < index
            /\ index <= ticket_list_buttons(Len(user_tickets[user_id]))
        ticket_id == IF by_index THEN user_tickets[user_id][index] ELSE message_text
    IN /\ notified' = NO_NOTE
       /\ ran' = chain \cup {"ticket_info_handler"}
       /\ UNCHANGED <<user_forms, delete_pending, user_tickets, tickets, now>>
       /\ IF startswith(message_text, TXT_DELETE)
             \/ startswith(message_text, TXT_CONFIRM_DELETE)
          THEN /\ reply' = NO_REPLY
               /\ UNCHANGED last_viewed_ticket
          ELSE IF by_index /\ ~index_ok
          THEN /\ reply' = R("INVALID_TICKET_NUMBER", "start")
               /\ UNCHANGED last_viewed_ticket
          ELSE \E db_ok \in BOOLEAN :
                 LET ticket == db_get_ticket(tickets, ticket_id, db_ok)
                 IN IF ticket = {}
                    THEN /\ reply' = R("TICKET_NOT_FOUND_OR_NO_ACCESS", "start")
                         /\ UNCHANGED last_viewed_ticket
                    ELSE LET t == CHOOSE r \in ticket : TRUE
                         IN IF t.user_id # user_id
                            THEN /\ reply' =
                                      R("TICKET_NOT_FOUND_OR_NO_ACCESS", "start")
                                 /\ UNCHANGED last_viewed_ticket
                            ELSE /\ last_viewed_ticket' =
                                      MapSet(last_viewed_ticket, user_id, ticket_id)
                                 /\ reply' = [R("TICKET_INFO", "ticket_detail")
                                                EXCEPT !.ticket_id = ticket_id,
                                                       !.form_data = t.form_data]

\* ticket_info_handler remembering the requested ID also when no ticket is
\* found
ticket_info_handler_remembering_every_request(user_id, text, chain) ==
    LET message_text == strip(text)
        by_index == isdigit(message_text) /\ ~Contains(message_text, <<95>>)
        index == int(message_text)
        index_ok ==
            /\ user_id \in DOMAIN user_tickets
            /\ 0 < index
            /\ index <= Len(user_tickets[user_id])
        ticket_id == IF by_index THEN user_tickets[user_id][index] ELSE message_text
    IN /\ notified' = NO_NOTE
       /\ ran' = chain \cup {"ticket_info_handler"}
       /\ UNCHANGED <<user_forms, delete_pending, user_tickets, tickets, now>>
       /\ IF startswith(message_text, TXT_DELETE)
             \/ startswith(message_text, TXT_CONFIRM_DELETE)
          THEN /\ reply' = NO_REPLY
               /\ UNCHANGED last_viewed_ticket
          ELSE IF by_index /\ ~index_ok
          THEN /\ reply' = R("INVALID_TICKET_NUMBER", "start")
               /\ UNCHANGED last_viewed_ticket
          ELSE \E db_ok \in BOOLEAN :
                 LET ticket == db_get_ticket(tickets, ticket_id, db_ok)
                 IN IF ticket = {}
                    THEN /\ reply' = R("TICKET_NOT_FOUND_OR_NO_ACCESS", "start")
                         /\ last_viewed_ticket' =
                                 MapSet(last_viewed_ticket, user_id, ticket_id)
                    ELSE LET t == CHOOSE r \in ticket : TRUE
                         IN IF t.user_id # user_id
                            THEN /\ reply' =
                                      R("TICKET_NOT_FOUND_OR_NO_ACCESS", "start")
                                 /\ UNCHANGED last_viewed_ticket
                            ELSE /\ last_viewed_ticket' =
                                      MapSet(last_viewed_ticket, user_id, ticket_id)
                                 /\ reply' = [R("TICKET_INFO", "ticket_detail")
                                                EXCEPT !.ticket_id = ticket_id,
                                                       !.form_data = t.form_data]

\* BotHandlers.ticket_info_handler
ticket_info_handler(user_id, text, chain) ==
    LET message_text == strip(text)
        by_index == isdigit(message_text) /\ ~Contains(message_text, <<95>>)
        index == int(message_text)
        index_ok ==
            /\ user_id \in DOMAIN user_tickets
            /\ 0 < index
            /\ index <= Len(user_tickets[user_id])
        ticket_id == IF by_index THEN user_tickets[user_id][index] ELSE message_text
    IN /\ notified' = NO_NOTE
       /\ ran' = chain \cup {"ticket_info_handler"}
       /\ UNCHANGED <<user_forms, delete_pending, user_tickets, tickets, now>>
       /\ IF startswith(message_text, TXT_DELETE)
             \/ startswith(message_text, TXT_CONFIRM_DELETE)
          THEN /\ reply' = NO_REPLY
               /\ UNCHANGED last_viewed_ticket
          ELSE IF by_index /\ ~index_ok
          THEN /\ reply' = R("INVALID_TICKET_NUMBER", "start")
               /\ UNCHANGED last_viewed_ticket
          ELSE \E db_ok \in BOOLEAN :
                 LET ticket == db_get_ticket(tickets, ticket_id, db_ok)
                 IN IF ticket = {}
                    THEN /\ reply' = R("TICKET_NOT_FOUND_OR_NO_ACCESS", "start")
                         /\ UNCHANGED last_viewed_ticket
                    ELSE LET t == CHOOSE r \in ticket : TRUE
                         IN IF t.user_id # user_id
                            THEN /\ reply' =
                                      R("TICKET_NOT_FOUND_OR_NO_ACCESS", "start")
                                 /\ UNCHANGED last_viewed_ticket
                            ELSE /\ last_viewed_ticket' =
                                      MapSet(last_viewed_ticket, user_id, ticket_id)
                                 /\ reply' = [R("TICKET_INFO", "ticket_detail")
                                                EXCEPT !.ticket_id = ticket_id,
                                                       !.form_data = t.form_data]

\* delete_ticket_handler asking for the confirmation without looking the
\* ticket up
delete_ticket_handler_without_lookup(user_id, chain) ==
    /\ notified' = NO_NOTE
    /\ ran' = chain \cup {"delete_ticket_handler"}
    /\ UNCHANGED <<user_forms, user_tickets, tickets, now>>
    /\ IF user_id \notin DOMAIN last_viewed_ticket
       THEN /\ reply' = R("SELECT_TICKET_FIRST", "start")
            /\ UNCHANGED <<last_viewed_ticket, delete_pending>>
       ELSE LET ticket_id == last_viewed_ticket[user_id]
            IN /\ reply' = [R("CONFIRM_DELETE_PROMPT", "confirm")
                              EXCEPT !.ticket_id = ticket_id]
               /\ delete_pending' = MapSet(delete_pending, user_id, ticket_id)
               /\ UNCHANGED last_viewed_ticket

\* BotHandlers.delete_ticket_handler
delete_ticket_handler(user_id, chain) ==
    /\ notified' = NO_NOTE
    /\ ran' = chain \cup {"delete_ticket_handler"}
    /\ UNCHANGED <<user_forms, user_tickets, tickets, now>>
    /\ IF user_id \notin DOMAIN last_viewed_ticket
       THEN /\ reply' = R("SELECT_TICKET_FIRST", "start")
            /\ UNCHANGED <<last_viewed_ticket, delete_pending>>
       ELSE \E db_ok \in BOOLEAN :
              LET ticket_id == last_viewed_ticket[user_id]
                  ticket == db_get_ticket(tickets, ticket_id, db_ok)
              IN IF ticket = {}
                 THEN /\ reply' = R("TICKET_NOT_FOUND_OR_NO_DELETE_RIGHT", "start")
                      /\ last_viewed_ticket' = MapDel(last_viewed_ticket, user_id)
                      /\ UNCHANGED delete_pending
                 ELSE IF (CHOOSE r \in ticket : TRUE).user_id # user_id
                 THEN /\ reply' = R("TICKET_NOT_FOUND_OR_NO_DELETE_RIGHT", "start")
                      /\ last_viewed_ticket' = MapDel(last_viewed_ticket, user_id)
                      /\ UNCHANGED delete_pending
                 ELSE /\ reply' = [R("CONFIRM_DELETE_PROMPT", "confirm")
                                     EXCEPT !.ticket_id = ticket_id]
                      /\ delete_pending' = MapSet(delete_pending, user_id, ticket_id)
                      /\ UNCHANGED last_viewed_ticket

\* confirm_delete_handler taking the last viewed ticket when no deletion is
\* pending
confirm_delete_handler_of_last_viewed(user_id, chain) ==
    /\ UNCHANGED <<user_forms, last_viewed_ticket, now>>
    /\ IF user_id \notin DOMAIN delete_pending
          /\ user_id \notin DOMAIN last_viewed_ticket
       THEN /\ reply' = R("NO_PENDING_DELETE", "start")
            /\ notified' = NO_NOTE
            /\ ran' = chain \cup {"confirm_delete_handler"}
            /\ UNCHANGED <<delete_pending, user_tickets, tickets>>
       ELSE \E get_ok \in BOOLEAN, db_ok \in BOOLEAN, send_ok \in BOOLEAN :
              LET ticket_id == IF user_id \in DOMAIN delete_pending
                               THEN delete_pending[user_id]
                               ELSE last_viewed_ticket[user_id]
                  cleared == IF user_id \in DOMAIN delete_pending
                             THEN MapDel(delete_pending, user_id) ELSE delete_pending
                  ticket == db_get_ticket(tickets, ticket_id, get_ok)
              IN IF ticket = {} \/ (CHOOSE r \in ticket : TRUE).user_id # user_id
                 THEN /\ reply' =
                           R("TICKET_NOT_FOUND_OR_NO_DELETE_RIGHT", "start")
                      /\ delete_pending' = cleared
                      /\ notified' = NO_NOTE
                      /\ ran' = chain \cup {"confirm_delete_handler"}
                      /\ UNCHANGED <<user_tickets, tickets>>
                 ELSE LET d == delete_ticket(user_tickets, tickets, user_id,
                                             ticket_id, db_ok)
                      IN /\ user_tickets' = d.user_tickets
                         /\ tickets' = d.tickets
                         /\ delete_pending' = cleared
                         /\ ran' = chain \cup {"confirm_delete_handler", "delete_ticket"}
                         /\ IF d.result
                            THEN /\ reply' = [R("TICKET_DELETED", "start")
                                                EXCEPT !.ticket_id = ticket_id]
                                 /\ notified' = notify_admins_about_deleted_ticket(
                                                    ticket_id, user_id, send_ok)
                            ELSE /\ reply' = R("ERROR_TICKET_DELETION", "start")
                                 /\ notified' = NO_NOTE

\* confirm_delete_handler keeping the pending deletion when the ticket was
\* not deleted
confirm_delete_handler_clearing_on_success(user_id, chain) ==
    /\ UNCHANGED <<user_forms, last_viewed_ticket, now>>
    /\ IF user_id \notin DOMAIN delete_pending
       THEN /\ reply' = R("NO_PENDING_DELETE", "start")
            /\ notified' = NO_NOTE
            /\ ran' = chain \cup {"confirm_delete_handler"}
            /\ UNCHANGED <<delete_pending, user_tickets, tickets>>
       ELSE \E get_ok \in BOOLEAN, db_ok \in BOOLEAN, send_ok \in BOOLEAN :
              LET ticket_id == delete_pending[user_id]
                  ticket == db_get_ticket(tickets, ticket_id, get_ok)
              IN IF ticket = {} \/ (CHOOSE r \in ticket : TRUE).user_id # user_id
                 THEN /\ reply' =
                           R("TICKET_NOT_FOUND_OR_NO_DELETE_RIGHT", "start")
                      /\ delete_pending' = MapDel(delete_pending, user_id)
                      /\ notified' = NO_NOTE
                      /\ ran' = chain \cup {"confirm_delete_handler"}
                      /\ UNCHANGED <<user_tickets, tickets>>
                 ELSE LET d == delete_ticket(user_tickets, tickets, user_id,
                                             ticket_id, db_ok)
                      IN /\ user_tickets' = d.user_tickets
                         /\ tickets' = d.tickets
                         /\ ran' = chain \cup {"confirm_delete_handler", "delete_ticket"}
                         /\ IF d.result
                            THEN /\ delete_pending' = MapDel(delete_pending, user_id)
                                 /\ reply' = [R("TICKET_DELETED", "start")
                                                EXCEPT !.ticket_id = ticket_id]
                                 /\ notified' = notify_admins_about_deleted_ticket(
                                                    ticket_id, user_id, send_ok)
                            ELSE /\ UNCHANGED delete_pending
                                 /\ reply' = R("ERROR_TICKET_DELETION", "start")
                                 /\ notified' = NO_NOTE

\* BotHandlers.confirm_delete_handler
confirm_delete_handler(user_id, chain) ==
    /\ UNCHANGED <<user_forms, last_viewed_ticket, now>>
    /\ IF user_id \notin DOMAIN delete_pending
       THEN /\ reply' = R("NO_PENDING_DELETE", "start")
            /\ notified' = NO_NOTE
            /\ ran' = chain \cup {"confirm_delete_handler"}
            /\ UNCHANGED <<delete_pending, user_tickets, tickets>>
       ELSE \E get_ok \in BOOLEAN, db_ok \in BOOLEAN, send_ok \in BOOLEAN :
              LET ticket_id == delete_pending[user_id]
                  ticket == db_get_ticket(tickets, ticket_id, get_ok)
              IN IF ticket = {} \/ (CHOOSE r \in ticket : TRUE).user_id # user_id
                 THEN /\ reply' =
                           R("TICKET_NOT_FOUND_OR_NO_DELETE_RIGHT", "start")
                      /\ delete_pending' = MapDel(delete_pending, user_id)
                      /\ notified' = NO_NOTE
                      /\ ran' = chain \cup {"confirm_delete_handler"}
                      /\ UNCHANGED <<user_tickets, tickets>>
                 ELSE LET d == delete_ticket(user_tickets, tickets, user_id,
                                             ticket_id, db_ok)
                      IN /\ user_tickets' = d.user_tickets
                         /\ tickets' = d.tickets
                         /\ delete_pending' = MapDel(delete_pending, user_id)
                         /\ ran' = chain \cup {"confirm_delete_handler", "delete_ticket"}
                         /\ IF d.result
                            THEN /\ reply' = [R("TICKET_DELETED", "start")
                                                EXCEPT !.ticket_id = ticket_id]
                                 /\ notified' = notify_admins_about_deleted_ticket(
                                                    ticket_id, user_id, send_ok)
                            ELSE /\ reply' = R("ERROR_TICKET_DELETION", "start")
                                 /\ notified' = NO_NOTE

\* BotHandlers.dev_create_random_ticket
dev_create_random_ticket(user_id, chain) ==
    /\ notified' = NO_NOTE
    /\ ran' = chain \cup {"dev_create_random_ticket"}
    /\ UNCHANGED <<user_forms, last_viewed_ticket, delete_pending, user_tickets, now>>
    /\ \E form_data \in generate_random_form_data, db_ok \in BOOLEAN :
         LET ticket_id == TicketId(user_id, now)
             db == db_create_ticket(tickets, ticket_id, user_id, form_data, now, db_ok)
         IN /\ tickets' = db.table
            /\ IF db.result
               THEN reply' = [R("DEV_TICKET_CREATED", "start")
                                EXCEPT !.ticket_id = ticket_id, !.form_data = form_data]
               ELSE reply' = R("DEV_TICKET_ERROR", "start")

\* BotHandlers.message_handler
message_handler(user_id, text, chain) ==
    LET message_text == strip(text)
        parts == split_underscore(message_text, <<>>)
    IN IF message_text = TXT_DELETE
         THEN delete_ticket_handler(user_id, chain \cup {"message_handler"})
       ELSE IF message_text = TXT_CONFIRM_DELETE
         THEN confirm_delete_handler(user_id, chain \cup {"message_handler"})
       ELSE IF user_id \in DOMAIN user_forms
         THEN LET p == process_answer(user_forms, user_id, text)
              IN /\ user_forms' = p.user_forms
                 /\ reply' = [R("next_question",
                                IF is_form_complete(p.user_forms, user_id)
                                THEN "submit" ELSE "form")
                                EXCEPT !.error = p.error, !.question = p.question]
                 /\ notified' = NO_NOTE
                 /\ ran' = chain \cup {"message_handler", "process_answer"}
                 /\ UNCHANGED <<last_viewed_ticket, delete_pending, user_tickets,
                                tickets, now>>
       ELSE IF /\ message_text # <<>>
               /\ \/ isdigit(message_text)
                  \/ /\ Contains(message_text, <<95>>)
                     /\ \A i \in 1..Len(parts) : isdigit(parts[i])
               /\ user_id \in DOMAIN user_tickets
         THEN ticket_info_handler(user_id, text, chain \cup {"message_handler"})
       ELSE /\ reply' = R("UNKNOWN_COMMAND", "start")
            /\ notified' = NO_NOTE
            /\ ran' = chain \cup {"message_handler"}
            /\ UNCHANGED <<user_forms, last_viewed_ticket, delete_pending,
                           user_tickets, tickets, now>>

\* form_start_handler without the test for an open session
form_start_handler_restarting(user_id, text, chain) ==
    /\ user_forms' = start_form(user_forms, user_id)
    /\ reply' = [R("FORM_START_MESSAGE", "form")
                   EXCEPT !.question =
                       get_current_question(start_form(user_forms, user_id), user_id)]
    /\ notified' = NO_NOTE
    /\ ran' = chain \cup {"form_start_handler", "start_form"}
    /\ UNCHANGED <<last_viewed_ticket, delete_pending, user_tickets, tickets, now>>

\* form_start_handler answering a user who has a session with the open
\* question, without passing the text on as an answer
form_start_handler_keeping_the_session(user_id, text, chain) ==
    IF user_id \in DOMAIN user_forms
    THEN /\ reply' = [R("next_question",
                        IF is_form_complete(user_forms, user_id)
                        THEN "submit" ELSE "form")
                        EXCEPT !.question = get_current_question(user_forms, user_id)]
         /\ notified' = NO_NOTE
         /\ ran' = chain \cup {"form_start_handler"}
         /\ UNCHANGED <<user_forms, last_viewed_ticket, delete_pending,
                        user_tickets, tickets, now>>
    ELSE /\ user_forms' = start_form(user_forms, user_id)
         /\ reply' = [R("FORM_START_MESSAGE", "form")
                        EXCEPT !.question =
                            get_current_question(start_form(user_forms, user_id), user_id)]
         /\ notified' = NO_NOTE
         /\ ran' = chain \cup {"form_start_handler", "start_form"}
         /\ UNCHANGED <<last_viewed_ticket, delete_pending, user_tickets, tickets, now>>

\* BotHandlers.form_start_handler
form_start_handler(user_id, text, chain) ==
    IF user_id \in DOMAIN user_forms
    THEN message_handler(user_id, text, chain \cup {"form_start_handler"})
    ELSE /\ user_forms' = start_form(user_forms, user_id)
         /\ reply' = [R("FORM_START_MESSAGE", "form")
                        EXCEPT !.question =
                            get_current_question(start_form(user_forms, user_id), user_id)]
         /\ notified' = NO_NOTE
         /\ ran' = chain \cup {"form_start_handler", "start_form"}
         /\ UNCHANGED <<last_viewed_ticket, delete_pending, user_tickets, tickets, now>>

\* ------------------------------------------------------------ the machine
NO_MSG == [from_id |-> 0, text |-> <<>>]

NO_PRE ==
    [user_forms |-> <<>>, last_viewed_ticket |-> <<>>, delete_pending |-> <<>>,
     user_tickets |-> <<>>, tickets |-> {}]

Init ==
    /\ user_forms = <<>>
    /\ last_viewed_ticket = <<>>
    /\ delete_pending = <<>>
    /\ user_tickets = <<>>
    /\ tickets = {}
    /\ now = 0
    /\ text_rule \in TextRules
    /\ user_states = <<>>
    /\ awaiting = {}
    /\ msg = NO_MSG
    /\ pre = NO_PRE
    /\ ran = {}
    /\ reply = NO_REPLY
    /\ notified = NO_NOTE

Handlers ==
    {"start_handler", "form_start_handler", "cancel_handler", "submit_handler",
     "tickets_handler", "ticket_info_handler", "delete_ticket_handler",
     "confirm_delete_handler", "dev_create_random_ticket", "message_handler"}

\* the texts of user 1 under a reading of the text rule: where a pattern is
\* matched by the text that spells it, user 1 also sends that text
TextsUnder(rule) ==
    IF rule = "vbml" THEN Texts \cup {TXT_TICKET_INDEX_PATTERN} ELSE Texts

\* the positions of a ticket list of this length, and the two numbers next
\* to them
ListPositions(n) == {str(k) : k \in 0..(n + 1)}

\* the ticket IDs a ticket list of user 1 can show
ListedIds(n) == {TicketId(1, ts) : ts \in 0..n}

\* the texts register_handlers routes to each handler
RoutedTexts ==
    [rule \in TextRules, handler \in Handlers |->
        {t \in TextsUnder(rule) \cup ListPositions(MaxList) \cup {S_YES, S_NO}
                \cup ListedIds(MaxList) :
            RouteBy(rule, t) = handler}]

\* the texts a user sends: user 1 any of them, the positions of the list
\* shown last, while no form is open the ticket IDs of that list and, asked
\* to confirm a deletion while no form is open, "Да" and "нет"; every other
\* user starts a form, creates tickets and tries to delete
TextsOf(user_id) ==
    IF user_id = 1
    THEN TextsUnder(text_rule)
         \cup (IF 1 \in DOMAIN user_tickets
               THEN ListPositions(Len(user_tickets[1])) ELSE {})
         \cup (IF 1 \in DOMAIN user_tickets /\ 1 \notin DOMAIN user_forms
               THEN {user_tickets[1][k] : k \in 1..Len(user_tickets[1])} ELSE {})
         \cup (IF 1 \in DOMAIN delete_pending /\ 1 \notin DOMAIN user_forms
               THEN {S_YES, S_NO} ELSE {})
    ELSE {TXT_FORM_START, TXT_DELETE, TXT_CONFIRM_DELETE, TXT_DEV_TEST, str(1)}

\* a message with this text from this user arrives; the bot handles one
\* message at a time
Receive(user_id, text) ==
    /\ msg = NO_MSG
    /\ text \in TextsOf(user_id)
    /\ msg' = [from_id |-> user_id, text |-> text]
    /\ text_rule' = text_rule
    /\ UNCHANGED <<user_states, awaiting>>
    /\ pre' = [user_forms |-> user_forms, last_viewed_ticket |-> last_viewed_ticket,
               delete_pending |-> delete_pending, user_tickets |-> user_tickets,
               tickets |-> tickets]

Start ==
    \E user_id \in Users, text \in RoutedTexts[text_rule, "start_handler"] :
        Receive(user_id, text) /\ start_handler(user_id, {})

FormStart ==
    \E user_id \in Users, text \in RoutedTexts[text_rule, "form_start_handler"] :
        Receive(user_id, text) /\ form_start_handler(user_id, text, {})

Cancel ==
    \E user_id \in Users, text \in RoutedTexts[text_rule, "cancel_handler"] :
        Receive(user_id, text) /\ cancel_handler(user_id, {})

Submit ==
    \E user_id \in Users, text \in RoutedTexts[text_rule, "submit_handler"] :
        Receive(user_id, text) /\ submit_handler(user_id, {})

ListTickets ==
    \E user_id \in Users, text \in RoutedTexts[text_rule, "tickets_handler"] :
        Receive(user_id, text) /\ tickets_handler(user_id, {})

TicketInfo ==
    \E user_id \in Users, text \in RoutedTexts[text_rule, "ticket_info_handler"] :
        Receive(user_id, text) /\ ticket_info_handler(user_id, text, {})

DeleteTicket ==
    \E user_id \in Users, text \in RoutedTexts[text_rule, "delete_ticket_handler"] :
        Receive(user_id, text) /\ delete_ticket_handler(user_id, {})

ConfirmDelete ==
    \E user_id \in Users, text \in RoutedTexts[text_rule, "confirm_delete_handler"] :
        Receive(user_id, text) /\ confirm_delete_handler(user_id, {})

DevCreate ==
    \E user_id \in Users, text \in RoutedTexts[text_rule, "dev_create_random_ticket"] :
        Receive(user_id, text) /\ dev_create_random_ticket(user_id, {})

Message ==
    \E user_id \in Users, text \in RoutedTexts[text_rule, "message_handler"] :
        Receive(user_id, text) /\ message_handler(user_id, text, {})

\* the reply and the notification of the handled message have gone out; the
\* bot is ready for the next message
Deliver ==
    /\ msg # NO_MSG
    /\ msg' = NO_MSG
    /\ pre' = NO_PRE
    /\ ran' = {}
    /\ reply' = NO_REPLY
    /\ notified' = NO_NOTE
    /\ UNCHANGED <<user_forms, last_viewed_ticket, delete_pending, user_tickets,
                   tickets, now, text_rule, user_states, awaiting>>

\* a second passes between two messages
Tick ==
    /\ msg = NO_MSG
    /\ now < MaxTime
    /\ now' = now + 1
    /\ UNCHANGED <<user_forms, last_viewed_ticket, delete_pending, user_tickets,
                   tickets, text_rule, msg, pre, ran, reply, notified,
                   user_states, awaiting>>

Next ==
    \/ Start
    \/ FormStart
    \/ Cancel
    \/ Submit
    \/ ListTickets
    \/ TicketInfo
    \/ DeleteTicket
    \/ ConfirmDelete
    \/ DevCreate
    \/ Message
    \/ Deliver
    \/ Tick

Spec == Init /\ [][Next]_vars

\* the rows of m tickets of user 1 created one second after the other, as
\* DatabaseHandler.create_ticket writes them
StoredTickets(m) ==
    {[ticket_id |-> TicketId(1, ts), user_id |-> 1, created_at |-> ts,
      form_data |-> json_dumps(CHOOSE d \in generate_random_form_data : TRUE)] :
        ts \in 0..(m - 1)}

\* the bot starts on a database file that holds the tickets of earlier runs:
\* BotHandlers.__init__ builds an empty FormHandler, DatabaseHandler opens
\* the file
InitList ==
    /\ user_forms = <<>>
    /\ last_viewed_ticket = <<>>
    /\ delete_pending = <<>>
    /\ user_tickets = <<>>
    /\ \E m \in 0..MaxList : tickets = StoredTickets(m) /\ now = m
    /\ text_rule \in TextRules
    /\ user_states = <<>>
    /\ awaiting = {}
    /\ msg = NO_MSG
    /\ pre = NO_PRE
    /\ ran = {}
    /\ reply = NO_REPLY
    /\ notified = NO_NOTE

\* the users list their tickets, pick from the list and write other texts
NextList ==
    \/ ListTickets
    \/ TicketInfo
    \/ Message
    \/ Deliver

SpecList == InitList /\ [][NextList]_vars

\* ------------------------------------------ the database handler on its own
\* the form data the callers of DatabaseHandler pass: two different dicts
StoreData ==
    LET d == CHOOSE x \in generate_random_form_data : TRUE
    IN {d, DictSet(d, FORM_FIELDS[1], R_COMPANY)}

\* the ticket IDs the callers pass: the IDs of the users' tickets
StoreIds == {TicketId(u, ts) : u \in Users, ts \in 0..MaxTime}

\* what a call of a DatabaseHandler method returned, kept like a reply
Returned(value, ticket_id, form_data) ==
    [R(IF value THEN "True" ELSE "False", "")
        EXCEPT !.ticket_id = ticket_id, !.form_data = form_data]

\* the state the call was made in, the call and its arguments
Called(method, user_id, ticket_id) ==
    /\ msg = NO_MSG
    /\ msg' = [from_id |-> user_id, text |-> ticket_id]
    /\ pre' = [user_forms |-> user_forms, last_viewed_ticket |-> last_viewed_ticket,
               delete_pending |-> delete_pending, user_tickets |-> user_tickets,
               tickets |-> tickets]
    /\ ran' = {method}
    /\ notified' = NO_NOTE
    /\ UNCHANGED <<user_forms, last_viewed_ticket, delete_pending, user_tickets,
                   now, text_rule, user_states, awaiting>>

\* DatabaseHandler.create_ticket(ticket_id, user_id, form_data) is called
StoreCreate ==
    \E ticket_id \in StoreIds, user_id \in Users, form_data \in StoreData,
       db_ok \in BOOLEAN :
        LET db == db_create_ticket(tickets, ticket_id, user_id, form_data, now,
                                   db_ok)
        IN /\ Called("db_create_ticket", user_id, ticket_id)
           /\ tickets' = db.table
           /\ reply' = Returned(db.result, ticket_id, form_data)

\* DatabaseHandler.delete_ticket(ticket_id, user_id) is called
StoreDelete ==
    \E ticket_id \in StoreIds, user_id \in Users, db_ok \in BOOLEAN :
        LET db == db_delete_ticket(tickets, ticket_id, user_id, db_ok)
        IN /\ Called("db_delete_ticket", user_id, ticket_id)
           /\ tickets' = db.table
           /\ reply' = Returned(db.result, ticket_id, <<>>)

\* the callers of the database handler create and delete tickets; time
\* passes between the calls
NextStore ==
    \/ StoreCreate
    \/ StoreDelete
    \/ Deliver
    \/ Tick

SpecStore == Init /\ [][NextStore]_vars

\* ------------------------------- create_ticket suspended at its await
\* submit_handler up to the await in FormHandler.create_ticket: the form is
\* complete, form_data and ticket_id are taken, and the coroutine waits for
\* db_handler.create_ticket; other messages are handled meanwhile
SubmitSuspend ==
    \E user_id \in Users :
        /\ msg = NO_MSG
        /\ TXT_SUBMIT \in TextsOf(user_id)
        /\ Cardinality(awaiting) < MaxTasks
        /\ user_id \in DOMAIN user_forms
        /\ is_form_complete(user_forms, user_id)
        /\ awaiting' = awaiting \cup
              {[user_id |-> user_id, ticket_id |-> TicketId(user_id, now),
                form_data |-> user_forms[user_id].data]}
        /\ UNCHANGED <<user_forms, last_viewed_ticket, delete_pending,
                       user_tickets, tickets, now, text_rule, msg, pre, ran,
                       reply, notified, user_states>>

\* the rest of create_ticket and of submit_handler after the await: the
\* database handler has inserted the row or failed; on success
\* del self.user_forms[user_id] runs, which raises KeyError when the session
\* is gone; the exception leaves create_ticket and submit_handler, so that
\* nothing is answered and nobody is notified
SubmitResume ==
    \E task \in awaiting, db_ok \in BOOLEAN, send_ok \in BOOLEAN :
        LET user_id == task.user_id
            db == db_create_ticket(tickets, task.ticket_id, user_id,
                                   task.form_data, now, db_ok)
        IN /\ msg = NO_MSG
           /\ awaiting' = awaiting \ {task}
           /\ msg' = [from_id |-> user_id, text |-> TXT_SUBMIT]
           /\ pre' = [user_forms |-> user_forms,
                      last_viewed_ticket |-> last_viewed_ticket,
                      delete_pending |-> delete_pending,
                      user_tickets |-> user_tickets, tickets |-> tickets]
           /\ tickets' = db.table
           /\ UNCHANGED <<last_viewed_ticket, delete_pending, user_tickets, now,
                          text_rule, user_states>>
           /\ IF ~db.result
              THEN /\ reply' = R("ERROR_TICKET_CREATION", "start")
                   /\ notified' = NO_NOTE
                   /\ ran' = {"submit_handler", "create_ticket", "resumed"}
                   /\ UNCHANGED user_forms
              ELSE IF user_id \notin DOMAIN user_forms
              THEN /\ reply' = NO_REPLY
                   /\ notified' = NO_NOTE
                   /\ ran' = {"submit_handler", "create_ticket", "resumed",
                              "KeyError"}
                   /\ UNCHANGED user_forms
              ELSE /\ user_forms' = MapDel(user_forms, user_id)
                   /\ notified' = notify_admins_about_new_ticket(
                                      task.ticket_id, user_id, task.form_data,
                                      send_ok)
                   /\ reply' = [R("FORM_COMPLETE_MESSAGE", "start")
                                  EXCEPT !.ticket_id = task.ticket_id]
                   /\ ran' = {"submit_handler", "create_ticket", "resumed"}

\* the users fill forms, cancel them and submit them; a submit waits for
\* the database while other messages are handled
NextAsync ==
    \/ FormStart
    \/ Message
    \/ Cancel
    \/ SubmitSuspend
    \/ SubmitResume
    \/ Deliver
    \/ Tick

SpecAsync == Init /\ [][NextAsync]_vars

\* --------------------------------------- FormHandler.user_states on its own
\* None, where a str is expected: no sequence of code points
None == <<-1>>
\* "last_viewed_ticket"
K_VIEWED == <<108, 97, 115, 116, 95, 118, 105, 101, 119, 101, 100, 95, 116, 105, 99, 107, 101, 116>>
\* "ticket_pending_delete"
K_PENDING == <<116, 105, 99, 107, 101, 116, 95, 112, 101, 110, 100, 105, 110, 103, 95, 100, 101, 108, 101, 116, 101>>
\* values of the parameter key (a str): "", "last_viewed_ticket",
\* "ticket_pending_delete"
StateKeys == {<<>>, K_VIEWED, K_PENDING}

\* values of the parameter value: ticket IDs
StateValues == {TicketId(1, ts) : ts \in 0..MaxTime}

\* bool(key) of Python: None and "" are false
Truthy(key) == key # None /\ key # <<>>

\* FormHandler.set_user_state: user_states after it
set_user_state(states, user_id, key, value) ==
    LET own == IF user_id \in DOMAIN states THEN states[user_id] ELSE <<>>
    IN MapSet(states, user_id, MapSet(own, key, value))

\* FormHandler.get_user_state
get_user_state(states, user_id, key, default) ==
    IF user_id \in DOMAIN states /\ key \in DOMAIN states[user_id]
    THEN states[user_id][key] ELSE default

\* FormHandler.clear_user_state: user_states after it; key is None when the
\* caller leaves it out
clear_user_state(states, user_id, key) ==
    IF user_id \notin DOMAIN states THEN states
    ELSE IF Truthy(key)
    THEN LET own == IF key \in DOMAIN states[user_id]
                    THEN MapDel(states[user_id], key) ELSE states[user_id]
         IN IF DOMAIN own = {} THEN MapDel(states, user_id)
            ELSE MapSet(states, user_id, own)
    ELSE MapDel(states, user_id)

\* a method of FormHandler was called on user_states with these arguments
StateCalled(method, user_id, key, value) ==
    /\ msg = NO_MSG
    /\ msg' = [from_id |-> user_id, text |-> key]
    /\ pre' = [user_states |-> user_states]
    /\ ran' = {method}
    /\ reply' = [NO_REPLY EXCEPT !.ticket_id = value]
    /\ notified' = NO_NOTE
    /\ UNCHANGED <<user_forms, last_viewed_ticket, delete_pending, user_tickets,
                   tickets, now, text_rule, awaiting>>

SetState ==
    \E user_id \in Users, key \in StateKeys, value \in StateValues :
        /\ StateCalled("set_user_state", user_id, key, value)
        /\ user_states' = set_user_state(user_states, user_id, key, value)

ClearState ==
    \E user_id \in Users, key \in StateKeys \cup {None} :
        /\ StateCalled("clear_user_state", user_id, key, <<>>)
        /\ user_states' = clear_user_state(user_states, user_id, key)

\* set_user_state and clear_user_state are called in any order
NextState ==
    \/ SetState
    \/ ClearState
    \/ Deliver

SpecState == Init /\ [][NextState]_vars

\* ------------------------------------------- a form filled in and submitted
\* a message with this text from this user arrives, whatever the user
Sent(user_id, text) ==
    /\ msg = NO_MSG
    /\ msg' = [from_id |-> user_id, text |-> text]
    /\ text_rule' = text_rule
    /\ UNCHANGED <<user_states, awaiting>>
    /\ pre' = [user_forms |-> user_forms, last_viewed_ticket |-> last_viewed_ticket,
               delete_pending |-> delete_pending, user_tickets |-> user_tickets,
               tickets |-> tickets]

\* the user has a ticket in the table
HasTicket(user_id) == \E t \in tickets : t.user_id = user_id

\* the answers validate_field accepts for the field, among the texts of the
\* dialogue that reach message_handler
ValidAnswers(field_name) ==
    {t \in TextsUnder(text_rule) :
        /\ RouteBy(text_rule, t) = "message_handler"
        /\ validate_field(field_name, t)[1]}

\* a user without a session, without a ticket and without a waiting submit
\* sends "Заполнить заявку": every user fills in at most one form
FillStart ==
    \E user_id \in Users :
        /\ user_id \notin DOMAIN user_forms
        /\ ~HasTicket(user_id)
        /\ \A task \in awaiting : task.user_id # user_id
        /\ Sent(user_id, TXT_FORM_START)
        /\ form_start_handler(user_id, TXT_FORM_START, {})

\* a user with an open question answers it with a valid value
FillAnswer ==
    \E user_id \in Users :
        /\ user_id \in DOMAIN user_forms
        /\ ~is_form_complete(user_forms, user_id)
        /\ \E text \in ValidAnswers(form_fields[user_forms[user_id].current_field + 1]) :
              Sent(user_id, text) /\ message_handler(user_id, text, {})

\* a user with a complete form sends "Отправить", and the INSERT of
\* DatabaseHandler.create_ticket succeeds
FillSubmit ==
    \E user_id \in Users :
        /\ user_id \in DOMAIN user_forms
        /\ is_form_complete(user_forms, user_id)
        /\ Sent(user_id, TXT_SUBMIT)
        /\ submit_handler(user_id, {})
        /\ tickets' # tickets

\* every user fills in one form and submits it
NextFill ==
    \/ FillStart
    \/ FillAnswer
    \/ FillSubmit
    \/ Deliver

\* as long as a user has something to send or the bot a message to deliver,
\* the event loop takes a step
FairFill == WF_vars(NextFill)

SpecFill == Init /\ [][NextFill]_vars /\ FairFill

\* ------------------------------------ one form submitted more than once
\* the users fill in one form each; "Отправить" is sent while earlier submits
\* of the same form wait for the database, as time goes by
NextTwice ==
    \/ FillStart
    \/ FillAnswer
    \/ SubmitSuspend
    \/ SubmitResume
    \/ Deliver
    \/ Tick

SpecTwice == Init /\ [][NextTwice]_vars

\* ----------------------------------- FormHandler.validate_field on its own
\* FORM_FIELDS_CONFIG[k]["validation"], k = 0..6: the "type" of the rule, or
\* "None" where the field has no rule
FORM_FIELDS_VALIDATION ==
    <<"min_length", "regex", "phone", "min_length", "None", "min_length", "None">>

\* the rule of a field of FORM_FIELDS_CONFIG
validation(field_name) ==
    FORM_FIELDS_VALIDATION[CHOOSE k \in 1..Len(FORM_FIELDS) : FORM_FIELDS[k] = field_name]

\* "+7 (900) 123-45-67"
S_PHONE_FORMATTED ==
    <<43, 55, 32, 40, 57, 48, 48, 41, 32, 49, 50, 51, 45, 52, 53, 45, 54, 55>>
\* "abcdefghij"
S_LETTERS10 == <<97, 98, 99, 100, 101, 102, 103, 104, 105, 106>>
\* "1234567890123456"
S_DIGITS16 == <<49, 50, 51, 52, 53, 54, 55, 56, 57, 48, 49, 50, 51, 52, 53, 54>>
\* "123456789"
S_DIGITS9 == <<49, 50, 51, 52, 53, 54, 55, 56, 57>>

\* answers to the question for the phone number
PhoneAnswers == {S_PHONE, S_PHONE_FORMATTED, S_LETTERS10, S_DIGITS16, S_DIGITS9}

\* values of the parameter value: the texts of the dialogue, and texts of
\* white space only (" ", "  ", "\t", "\n ")
Answers == Texts \cup {<<32>>, <<32, 32>>, <<9>>, <<10, 32>>} \cup PhoneAnswers

\* process_answer calls validate_field(field_name, value) for the answer of a
\* user with a session; the field is any field of the form
ValidateField ==
    \E user_id \in Users, k \in 1..Len(FORM_FIELDS), value \in Answers :
        LET field_name == FORM_FIELDS[k]
            v == validate_field(field_name, value)
        IN /\ msg = NO_MSG
           /\ user_id \in DOMAIN user_forms
           /\ msg' = [from_id |-> user_id, text |-> value]
           /\ pre' = [field_name |-> field_name]
           /\ ran' = {"validate_field"} \cup (IF v[1] THEN {"valid"} ELSE {})
           /\ reply' = [NO_REPLY EXCEPT !.text = v[2]]
           /\ notified' = NO_NOTE
           /\ UNCHANGED <<user_forms, last_viewed_ticket, delete_pending,
                          user_tickets, tickets, now, text_rule, user_states,
                          awaiting>>

\* sessions begin and end, and the answers of the users are validated
NextFields ==
    \/ FormStart
    \/ Cancel
    \/ ValidateField
    \/ Deliver

SpecFields == Init /\ [][NextFields]_vars

\* ------------------------------------------------------------ the claims
\* a message has been handled and its reply has not yet gone out
Handled == msg # NO_MSG

\* message.from_id of the handled message
Sender == msg.from_id

\* the sender had an open form session when the message arrived
HadForm == Sender \in DOMAIN pre.user_forms

\* the current field index of that session
PreIndex == pre.user_forms[Sender].current_field

\* the handled message went through process_answer while a question of the
\* form was open
Answered ==
    /\ Handled
    /\ "process_answer" \in ran
    /\ HadForm
    /\ PreIndex < Len(form_fields)

\* the answer passes the validation of the question that was open
AnswerValid == validate_field(form_fields[PreIndex + 1], msg.text)[1]

\* the bot is unchanged by the handled message
Untouched ==
    /\ user_forms = pre.user_forms
    /\ last_viewed_ticket = pre.last_viewed_ticket
    /\ delete_pending = pre.delete_pending
    /\ user_tickets = pre.user_tickets
    /\ tickets = pre.tickets

\* C1: a session starts at field index 0; each valid answer given through
\* process_answer moves the index up by exactly one; the index always equals
\* the number of answers stored; and the form is reported complete
\* (is_form_complete, the completion prompt, the submit keyboard) after the
\* answer that brings the index to the number of fields and after no other.
C1_ValidAnswersAdvanceOneStep ==
    /\ \A u \in DOMAIN user_forms :
          /\ user_forms[u].current_field \in 0..Len(form_fields)
          /\ \A i \in 1..Len(form_fields) :
                (user_forms[u].data[i][2] # <<>>) <=> (i <= user_forms[u].current_field)
          /\ is_form_complete(user_forms, u)
                <=> (user_forms[u].current_field = Len(form_fields))
    /\ (Handled /\ "start_form" \in ran) =>
          /\ Sender \in DOMAIN user_forms
          /\ user_forms[Sender].current_field = 0
          /\ ~is_form_complete(user_forms, Sender)
    /\ (Answered /\ AnswerValid) =>
          /\ Sender \in DOMAIN user_forms
          /\ user_forms[Sender].current_field = PreIndex + 1
          /\ reply.error = ""
          /\ (reply.question = Q_COMPLETE) <=> (PreIndex + 1 = Len(form_fields))
          /\ (reply.keyboard = "submit") <=> (PreIndex + 1 = Len(form_fields))
          /\ is_form_complete(user_forms, Sender) <=> (PreIndex + 1 = Len(form_fields))

\* the last valid answer of a form has been given and the form is reported
\* complete
C1_Witness ==
    /\ Answered
    /\ AnswerValid
    /\ PreIndex = Len(form_fields) - 1
    /\ user_forms[Sender].current_field = Len(form_fields)
    /\ reply.question = Q_COMPLETE
    /\ \E v \in DOMAIN user_forms : user_forms[v].current_field = 1

\* C2: an invalid answer at field index i leaves the index at i and the stored
\* answers as they were, the reply carries the validation error, and
\* get_current_question returns the question it returned before the answer.
C2_InvalidAnswerChangesNothing ==
    (Answered /\ ~AnswerValid) =>
        /\ Untouched
        /\ user_forms[Sender].current_field = PreIndex
        /\ reply.error = validate_field(form_fields[PreIndex + 1], msg.text)[2]
        /\ reply.error # ""
        /\ reply.question = Q_ASK(form_fields[PreIndex + 1])
        /\ get_current_question(user_forms, Sender)
              = get_current_question(pre.user_forms, Sender)

\* an e-mail address was refused at the second question
C2_Witness ==
    /\ Answered
    /\ ~AnswerValid
    /\ PreIndex = 1
    /\ strip(msg.text) # <<>>
    /\ reply.error = "ERROR_INVALID_EMAIL"

\* the texts that name a command
CommandTexts ==
    {TXT_START_RU, TXT_START, TXT_SLASH_START, TXT_FORM_START, TXT_CANCEL,
     TXT_SUBMIT, TXT_TICKETS, TXT_DELETE, TXT_CONFIRM_DELETE, TXT_DEV_CREATE,
     TXT_DEV_TEST}

\* a free-text message: its text names no command
FreeText(text) == strip(text) \notin CommandTexts

\* C3: every free-text message received while the sender has an open form
\* session is handled by process_answer, and no ticket selection or ticket
\* view runs for it: ticket_info_handler does not run and last_viewed_ticket
\* is not set.
C3_OpenFormTakesEveryFreeText ==
    (Handled /\ HadForm /\ FreeText(msg.text)) =>
        /\ "process_answer" \in ran
        /\ "ticket_info_handler" \notin ran
        /\ last_viewed_ticket = pre.last_viewed_ticket

\* a list position sent while a form is open has shown a ticket and set
\* last_viewed_ticket, and the form has not received the text
C3_NumberShowsTicketDuringForm ==
    /\ Handled
    /\ HadForm
    /\ isdigit(msg.text)
    /\ "process_answer" \notin ran
    /\ reply.text = "TICKET_INFO"
    /\ Sender \in DOMAIN last_viewed_ticket
    /\ Sender \notin DOMAIN pre.last_viewed_ticket
    /\ user_forms = pre.user_forms

\* C4: "Заполнить заявку" from a user who has a form session does not start
\* the form again: start_form does not run, the session stays, its index does
\* not go down and the answers given so far stay as they are.
C4_StartFormKeepsSession ==
    (Handled /\ "form_start_handler" \in ran /\ HadForm) =>
        /\ "start_form" \notin ran
        /\ Sender \in DOMAIN user_forms
        /\ user_forms[Sender].current_field >= PreIndex
        /\ \A i \in 1..PreIndex :
              user_forms[Sender].data[i] = pre.user_forms[Sender].data[i]

\* the form was asked for again after the first question had been answered
C4_Witness ==
    /\ Handled
    /\ "form_start_handler" \in ran
    /\ HadForm
    /\ PreIndex >= 1
    /\ user_forms[Sender].current_field >= 1
    /\ user_forms[Sender].data[1][2] # <<>>

\* the submit of the handled message succeeded
SubmitSucceeded ==
    /\ Handled
    /\ "submit_handler" \in ran
    /\ reply.text = "FORM_COMPLETE_MESSAGE"

SubmitFailed ==
    /\ Handled
    /\ "create_ticket" \in ran
    /\ reply.text # "FORM_COMPLETE_MESSAGE"

C7_EarlySubmitRejected ==
    (/\ Handled
     /\ "submit_handler" \in ran
     /\ (HadForm => PreIndex < Len(form_fields))) =>
        /\ Untouched
        /\ "create_ticket" \notin ran
        /\ notified = NO_NOTE
        /\ reply.text = IF HadForm THEN "FORM_NOT_COMPLETE" ELSE "FILL_FORM_FIRST"
        /\ HadForm => reply.question = Q_ASK(form_fields[PreIndex + 1])

\* a half-filled form was submitted
C7_Witness ==
    /\ Handled
    /\ "submit_handler" \in ran
    /\ HadForm
    /\ PreIndex = 1
    /\ reply.text = "FORM_NOT_COMPLETE"

\* C8: a message never removes or changes a ticket of a user other than its
\* sender.
C8_OnlyOwnerRemovesTicket ==
    Handled => \A t \in pre.tickets : t.user_id # Sender => t \in tickets

\* a user has deleted a ticket while the table held a ticket of another user
C8_Witness ==
    /\ Handled
    /\ "delete_ticket" \in ran
    /\ \E t \in pre.tickets \ tickets : t.user_id = Sender
    /\ \E t \in pre.tickets : t.user_id # Sender

\* the ticket ID a view request names
RequestedId == strip(msg.text)

\* a ticket was asked for by its ID
ViewById == Handled /\ "ticket_info_handler" \in ran /\ ~isdigit(RequestedId)

\* C9: a view request for a ticket of another user and one for an ID that no
\* ticket has get the same reply and change nothing; last_viewed_ticket never
\* names a ticket of another user, so that a delete prompt is never about one;
\* and a delete prompt for a ticket that is gone gets the reply a ticket of
\* another user would get.
C9_ForeignTicketLooksAbsent ==
    /\ (ViewById /\ \A t \in pre.tickets :
                       t.ticket_id = RequestedId => t.user_id # Sender) =>
          /\ reply = R("TICKET_NOT_FOUND_OR_NO_ACCESS", "start")
          /\ notified = NO_NOTE
          /\ Untouched
    /\ \A u \in DOMAIN last_viewed_ticket :
          \A t \in tickets : t.ticket_id = last_viewed_ticket[u] => t.user_id = u
    /\ (/\ Handled
        /\ "delete_ticket_handler" \in ran
        /\ Sender \in DOMAIN pre.last_viewed_ticket
        /\ \A t \in pre.tickets :
              t.ticket_id = pre.last_viewed_ticket[Sender] => t.user_id # Sender) =>
          /\ reply = R("TICKET_NOT_FOUND_OR_NO_DELETE_RIGHT", "start")
          /\ notified = NO_NOTE
          /\ tickets = pre.tickets
          /\ delete_pending = pre.delete_pending
          /\ Sender \notin DOMAIN last_viewed_ticket

\* a user asked for the ticket of another user by its ID
C9_Witness ==
    /\ ViewById
    /\ \E t \in pre.tickets : t.ticket_id = RequestedId /\ t.user_id # Sender
    /\ reply.text = "TICKET_NOT_FOUND_OR_NO_ACCESS"

\* C10: "Подтвердить удаление" from a user without a pending deletion is
\* answered that no deletion is pending and changes nothing; a cancel and a
\* confirm leave no pending deletion behind.
C10_ConfirmWithoutPendingDeletesNothing ==
    /\ (/\ Handled
        /\ "confirm_delete_handler" \in ran
        /\ Sender \notin DOMAIN pre.delete_pending) =>
          /\ reply = R("NO_PENDING_DELETE", "start")
          /\ "delete_ticket" \notin ran
          /\ notified = NO_NOTE
          /\ Untouched
    /\ (Handled /\ ran \cap {"confirm_delete_handler", "cancel_handler"} # {}) =>
          Sender \notin DOMAIN delete_pending

\* a deletion was confirmed after a cancel or a confirm had cleared it, while
\* the ticket last viewed was still in the table
C10_Witness ==
    /\ Handled
    /\ "confirm_delete_handler" \in ran
    /\ Sender \notin DOMAIN pre.delete_pending
    /\ Sender \in DOMAIN last_viewed_ticket
    /\ \E t \in tickets : t.ticket_id = last_viewed_ticket[Sender]
    /\ reply.text = "NO_PENDING_DELETE"

\* the sender confirmed a deletion that was pending when the message arrived
ConfirmedPending ==
    /\ Handled
    /\ "confirm_delete_handler" \in ran
    /\ Sender \in DOMAIN pre.delete_pending

\* the ticket whose deletion was pending
PendingId == pre.delete_pending[Sender]

\* the rows of the sender's pending ticket in a table
PendingRows(table) ==
    {r \in table : r.ticket_id = PendingId /\ r.user_id = Sender}

\* C11: after confirm_delete_handler has run for a user who had a pending
\* deletion, that user has none, whether the ticket was deleted, the delete
\* failed in the database or the ticket was not found as the user's own; the
\* pending deletions of the other users stay as they were.
C11_ConfirmClearsPending ==
    ConfirmedPending =>
        /\ Sender \notin DOMAIN delete_pending
        /\ delete_pending = MapDel(pre.delete_pending, Sender)
        /\ reply.text \in {"TICKET_DELETED", "ERROR_TICKET_DELETION",
                           "TICKET_NOT_FOUND_OR_NO_DELETE_RIGHT"}

\* the delete failed in the database: the ticket is still in the table and
\* the pending deletion is gone
C11_Witness ==
    /\ ConfirmedPending
    /\ "delete_ticket" \in ran
    /\ reply.text = "ERROR_TICKET_DELETION"
    /\ PendingRows(tickets) # {}
    /\ Sender \notin DOMAIN delete_pending

PickedFromList ==
    /\ Handled
    /\ ~HadForm
    /\ Sender \in DOMAIN pre.user_tickets
    /\ isdigit(strip(msg.text))

\* the cached list the sender picked from
PreList == pre.user_tickets[Sender]

\* the number the sender sent
Picked == int(strip(msg.text))

\* C13: with a cached ticket list of length M and no open form, the numbers 0
\* and M+1 (and every larger one) are answered that the number is invalid,
\* and change nothing; every k in 1..M selects the k-th ticket ID of the
\* cached list: that ticket is looked up, and shown and remembered as last
\* viewed when found.  The list keyboard has min(M, 5) numbered buttons, the
\* range check uses M.
C13_NumberSelectsFromCachedList ==
    /\ PickedFromList =>
          /\ "ticket_info_handler" \in ran
          /\ IF Picked = 0 \/ Picked > Len(PreList)
             THEN /\ reply = R("INVALID_TICKET_NUMBER", "start")
                  /\ Untouched
             ELSE /\ reply.text \in {"TICKET_INFO", "TICKET_NOT_FOUND_OR_NO_ACCESS"}
                  /\ reply.text = "TICKET_INFO" =>
                        /\ reply.ticket_id = PreList[Picked]
                        /\ Sender \in DOMAIN last_viewed_ticket
                        /\ last_viewed_ticket[Sender] = PreList[Picked]
                        /\ \E t \in pre.tickets :
                              /\ t.ticket_id = PreList[Picked]
                              /\ t.user_id = Sender
                  /\ reply.text = "TICKET_NOT_FOUND_OR_NO_ACCESS" =>
                        last_viewed_ticket = pre.last_viewed_ticket
                  /\ user_tickets = pre.user_tickets
                  /\ tickets = pre.tickets
    /\ (Handled /\ "tickets_handler" \in ran /\ reply.text = "TICKET_LIST") =>
          /\ Sender \in DOMAIN user_tickets
          /\ reply.buttons = IF Len(user_tickets[Sender]) < 5
                             THEN Len(user_tickets[Sender]) ELSE 5

\* a position of the list that has no button was sent, and its ticket shown
C13_Witness ==
    /\ PickedFromList
    /\ Picked > ticket_list_buttons(Len(PreList))
    /\ Picked <= Len(PreList)
    /\ reply.text = "TICKET_INFO"
    /\ reply.ticket_id = PreList[Picked]
    /\ reply.ticket_id = TicketId(Sender, 0)

\* C14: in every reachable state the current field index of every form
\* session is between 0 and the number of form fields, both included.
C14_FieldIndexWithinForm ==
    \A user_id \in DOMAIN user_forms :
        /\ user_forms[user_id].current_field >= 0
        /\ user_forms[user_id].current_field <= Len(form_fields)

\* an answer was given to a form whose index was the number of fields, and
\* the index stayed there
C14_Witness ==
    /\ Handled
    /\ "process_answer" \in ran
    /\ HadForm
    /\ PreIndex = Len(form_fields)
    /\ user_forms[Sender].current_field = Len(form_fields)

\* C15: a form session stops existing only through cancel_form or through a
\* create_ticket that stored the ticket, called for the user of the session;
\* answers, the start and form-start commands, listing, viewing, the delete
\* prompt, a confirmed deletion, a failed or early submit and unknown texts
\* leave every session in place.
C15_SessionEndsByCancelOrCreate ==
    \A user_id \in DOMAIN pre.user_forms :
        user_id \notin DOMAIN user_forms =>
            /\ Handled
            /\ user_id = Sender
            /\ \/ "cancel_form" \in ran
               \/ /\ "create_ticket" \in ran
                  /\ reply.text = "FORM_COMPLETE_MESSAGE"
                  /\ \E t \in tickets \ pre.tickets :
                        t.user_id = user_id /\ t.ticket_id = reply.ticket_id

\* the sender confirmed a deletion while filling a form: the ticket is
\* deleted and the session is as it was
C15_Witness ==
    /\ Handled
    /\ HadForm
    /\ "delete_ticket" \in ran
    /\ reply.text = "TICKET_DELETED"
    /\ Sender \in DOMAIN user_forms
    /\ user_forms[Sender] = pre.user_forms[Sender]
    /\ pre.user_forms[Sender].current_field > 0

\* the sender, who had an open form, sent the cancel command
CancelledWithForm ==
    /\ Handled
    /\ "cancel_handler" \in ran
    /\ HadForm

\* C16 as stated: after "Отмена" from a user who has an open form session, at
\* any field index and whatever the user's other state is, a pending
\* deletion included, the user has no form session.
C16_CancelAlwaysEndsSession ==
    CancelledWithForm => Sender \notin DOMAIN user_forms

\* C16 amended: after "Отмена" from a user who has an open form session and
\* no pending deletion, at any field index, the user has no form session and
\* nothing else has changed; when the user has a pending deletion, "Отмена"
\* cancels the deletion and leaves the form session as it was.
C16_CancelEndsSessionUnlessDeletionPending ==
    CancelledWithForm =>
        /\ IF Sender \in DOMAIN pre.delete_pending
           THEN /\ user_forms = pre.user_forms
                /\ delete_pending = MapDel(pre.delete_pending, Sender)
                /\ reply = R("DELETE_CANCELLED", "start")
           ELSE /\ user_forms = MapDel(pre.user_forms, Sender)
                /\ Sender \notin DOMAIN user_forms
                /\ delete_pending = pre.delete_pending
                /\ reply = R("CANCEL_MESSAGE", "start")
        /\ last_viewed_ticket = pre.last_viewed_ticket
        /\ user_tickets = pre.user_tickets
        /\ tickets = pre.tickets
        /\ notified = NO_NOTE

\* a complete form of a user who has viewed a ticket and has no pending
\* deletion was cancelled
C16_Witness ==
    /\ CancelledWithForm
    /\ PreIndex = Len(form_fields)
    /\ Sender \notin DOMAIN pre.delete_pending
    /\ Sender \in DOMAIN pre.last_viewed_ticket
    /\ Sender \notin DOMAIN user_forms

\* C17: cancel_form for a user without a form session raises nothing and
\* changes nothing; after cancel_form the user has no session and the
\* sessions of the other users are as they were; a second cancel_form gives
\* what the first gave.  The handler answers the cancel command of a user
\* without a session in the usual way.
C17_CancelFormIsIdempotent ==
    /\ \A user_id \in Users :
          LET once == cancel_form(user_forms, user_id)
              twice == cancel_form(once, user_id)
          IN /\ user_id \notin DOMAIN once
             /\ DOMAIN once = (DOMAIN user_forms) \ {user_id}
             /\ \A other \in DOMAIN once : once[other] = user_forms[other]
             /\ user_id \notin DOMAIN user_forms => once = user_forms
             /\ twice = once
    /\ (Handled /\ "cancel_form" \in ran /\ ~HadForm) =>
          /\ reply = R("CANCEL_MESSAGE", "start")
          /\ Untouched
          /\ cancel_form(user_forms, Sender) = user_forms

\* cancel_form ran for a user without a form session while another user had
\* one, which is still there
C17_Witness ==
    /\ Handled
    /\ "cancel_form" \in ran
    /\ ~HadForm
    /\ Sender \notin DOMAIN user_forms
    /\ \E other \in DOMAIN pre.user_forms :
          /\ other # Sender
          /\ other \in DOMAIN user_forms
          /\ user_forms[other] = pre.user_forms[other]

\* the rows of a table that are this ticket of this user
OwnRows(table, user_id, ticket_id) ==
    {t \in table : t.ticket_id = ticket_id /\ t.user_id = user_id}

\* C18: a pending deletion is written only by delete_ticket_handler, for the
\* sender, and only for a ticket that is in the table as the sender's own at
\* that moment; "Удалить заявку" for a ticket that is missing or another
\* user's, or without a viewed ticket, writes none.
C18_PendingNamesVerifiedOwnTicket ==
    /\ Handled =>
          \A user_id \in DOMAIN delete_pending :
              (\/ user_id \notin DOMAIN pre.delete_pending
               \/ pre.delete_pending[user_id] # delete_pending[user_id]) =>
                  /\ user_id = Sender
                  /\ "delete_ticket_handler" \in ran
                  /\ reply.text = "CONFIRM_DELETE_PROMPT"
    /\ (Handled /\ "delete_ticket_handler" \in ran) =>
          IF reply.text = "CONFIRM_DELETE_PROMPT"
          THEN /\ Sender \in DOMAIN pre.last_viewed_ticket
               /\ Sender \in DOMAIN delete_pending
               /\ delete_pending[Sender] = pre.last_viewed_ticket[Sender]
               /\ reply.ticket_id = delete_pending[Sender]
               /\ OwnRows(pre.tickets, Sender, delete_pending[Sender]) # {}
               /\ tickets = pre.tickets
          ELSE /\ delete_pending = pre.delete_pending
               /\ reply \in {R("SELECT_TICKET_FIRST", "start"),
                             R("TICKET_NOT_FOUND_OR_NO_DELETE_RIGHT", "start")}
    /\ (/\ Handled
        /\ "delete_ticket_handler" \in ran
        /\ Sender \in DOMAIN pre.last_viewed_ticket
        /\ OwnRows(pre.tickets, Sender, pre.last_viewed_ticket[Sender]) = {}) =>
          /\ delete_pending = pre.delete_pending
          /\ reply = R("TICKET_NOT_FOUND_OR_NO_DELETE_RIGHT", "start")

\* a pending deletion was written for a user who had none
C18_Witness ==
    /\ Handled
    /\ "delete_ticket_handler" \in ran
    /\ Sender \notin DOMAIN pre.delete_pending
    /\ Sender \in DOMAIN delete_pending
    /\ OwnRows(tickets, Sender, delete_pending[Sender]) # {}
    /\ reply.text = "CONFIRM_DELETE_PROMPT"

\* the sender, who had a pending deletion, sent the cancel command
CancelledDeletion ==
    /\ Handled
    /\ "cancel_handler" \in ran
    /\ Sender \in DOMAIN pre.delete_pending

\* C19: a user views the ticket T1, which makes T1 the last viewed ticket;
\* "Удалить заявку" then asks for the confirmation and makes T1 the pending
\* deletion of that user; "Отмена" then clears the pending deletion, calls
\* no delete, and T1 is still in the table.
C19_CancelledDeletionKeepsTicket ==
    /\ (Handled /\ "ticket_info_handler" \in ran /\ reply.text = "TICKET_INFO") =>
          /\ Sender \in DOMAIN last_viewed_ticket
          /\ last_viewed_ticket[Sender] = reply.ticket_id
          /\ OwnRows(tickets, Sender, reply.ticket_id) # {}
          /\ delete_pending = pre.delete_pending
    /\ (/\ Handled
        /\ "delete_ticket_handler" \in ran
        /\ Sender \in DOMAIN pre.last_viewed_ticket
        /\ OwnRows(pre.tickets, Sender, pre.last_viewed_ticket[Sender]) # {}) =>
          \/ /\ reply.text = "CONFIRM_DELETE_PROMPT"
             /\ Sender \in DOMAIN delete_pending
             /\ delete_pending[Sender] = pre.last_viewed_ticket[Sender]
             /\ tickets = pre.tickets
          \/ /\ reply = R("TICKET_NOT_FOUND_OR_NO_DELETE_RIGHT", "start")
             /\ delete_pending = pre.delete_pending
             /\ tickets = pre.tickets
    /\ CancelledDeletion =>
          /\ Sender \notin DOMAIN delete_pending
          /\ delete_pending = MapDel(pre.delete_pending, Sender)
          /\ "delete_ticket" \notin ran
          /\ tickets = pre.tickets
          /\ OwnRows(tickets, Sender, pre.delete_pending[Sender]) # {}
          /\ user_tickets = pre.user_tickets
          /\ last_viewed_ticket = pre.last_viewed_ticket
          /\ notified = NO_NOTE
          /\ reply = R("DELETE_CANCELLED", "start")

\* the deletion of the ticket viewed last was pending and was cancelled; the
\* ticket is in the table
C19_Witness ==
    /\ CancelledDeletion
    /\ Sender \in DOMAIN pre.last_viewed_ticket
    /\ pre.last_viewed_ticket[Sender] = pre.delete_pending[Sender]
    /\ OwnRows(tickets, Sender, pre.delete_pending[Sender]) # {}
    /\ Sender \notin DOMAIN delete_pending
    /\ reply.text = "DELETE_CANCELLED"

\* the sender, who had no open form and had a pending deletion, sent a text
\* that is no registered command
WroteWhilePending ==
    /\ Handled
    /\ ~HadForm
    /\ Sender \in DOMAIN pre.delete_pending
    /\ FreeText(msg.text)

\* the text of the handled message as the phrases are compared with it
Phrase == lower(strip(msg.text))

\* C20: for a user with no open form and a pending deletion, a free text that
\* equals a confirmation phrase of config.py, ignoring case, executes the
\* deletion; one that equals a cancellation phrase clears the pending
\* deletion and deletes nothing; any other text leaves the pending deletion
\* in place and is routed on.
C20_PhrasesConfirmAndCancel ==
    WroteWhilePending =>
        IF Phrase \in CONFIRM_DELETE_PHRASES
        THEN /\ "delete_ticket" \in ran
             /\ Sender \notin DOMAIN delete_pending
             /\ OwnRows(tickets, Sender, pre.delete_pending[Sender]) = {}
        ELSE IF Phrase \in CANCEL_PHRASES
        THEN /\ "delete_ticket" \notin ran
             /\ Sender \notin DOMAIN delete_pending
             /\ tickets = pre.tickets
        ELSE /\ delete_pending = pre.delete_pending
             /\ tickets = pre.tickets

\* "Да" was sent while a deletion was pending, and was answered as an unknown
\* command: the ticket is in the table, the deletion still pending
C20_PhraseIsUnknownCommand ==
    /\ WroteWhilePending
    /\ Phrase \in CONFIRM_DELETE_PHRASES
    /\ reply = R("UNKNOWN_COMMAND", "start")
    /\ "delete_ticket" \notin ran
    /\ Untouched
    /\ OwnRows(tickets, Sender, delete_pending[Sender]) # {}

\* the sender asked for the list of tickets
Listed == Handled /\ "tickets_handler" \in ran

\* the lists of ticket IDs get_all_tickets can return for the sender from the
\* table as it was, when the database answers
StoredIdLists ==
    {[i \in 1..Len(l) |-> l[i].ticket_id] :
        l \in db_get_all_tickets(pre.tickets, Sender, TRUE)}

\* C21: after every "Мои заявки" of a user, whatever number of tickets the
\* database returned, the cached list of that user is the list of ticket IDs
\* returned, in that order; a list cached earlier is never kept: when nothing
\* was returned the user has no cached IDs.
C21_ListReplacesCachedIndex ==
    Listed =>
        IF reply.text = "TICKET_LIST"
        THEN /\ Sender \in DOMAIN user_tickets
             /\ user_tickets[Sender] \in StoredIdLists
        ELSE /\ reply = R("NO_TICKETS", "start")
             /\ \/ Sender \notin DOMAIN user_tickets
                \/ user_tickets[Sender] = <<>>

\* the database returned nothing for "Мои заявки", the user was answered
\* that there are no tickets, and the list cached earlier is still there
C21_StaleIndexKept ==
    /\ Listed
    /\ reply = R("NO_TICKETS", "start")
    /\ Sender \in DOMAIN pre.user_tickets
    /\ Sender \in DOMAIN user_tickets
    /\ user_tickets[Sender] = pre.user_tickets[Sender]
    /\ user_tickets[Sender] # <<>>

\* DatabaseHandler.delete_ticket was called
DeleteCalled == Handled /\ ran = {"db_delete_ticket"}

\* DatabaseHandler.create_ticket was called
CreateCalled == Handled /\ ran = {"db_create_ticket"}

\* the rows under the ticket ID of the call, in a table
RowsOfCall(table) == SelectById(table, msg.text)

\* C22: delete_ticket(T, B) of the database handler for a ticket T owned by
\* a user A other than B returns False and leaves the row of T as it was,
\* owner and form data included; delete_ticket for a ticket ID that is not
\* in the table returns False and changes nothing.
C22_ForeignOrMissingDeleteRefused ==
    (DeleteCalled /\ OwnRows(pre.tickets, Sender, msg.text) = {}) =>
        /\ reply.text = "False"
        /\ tickets = pre.tickets
        /\ RowsOfCall(tickets) = RowsOfCall(pre.tickets)

\* user B asked for the deletion of a ticket of user A: the row is there
C22_Witness ==
    /\ DeleteCalled
    /\ \E t \in RowsOfCall(pre.tickets) : t.user_id # Sender
    /\ reply.text = "False"
    /\ RowsOfCall(tickets) # {}

\* C23: create_ticket of the database handler with a ticket ID that is in
\* the table returns False and leaves the row under that ID as it was:
\* owner, creation time and form data; no two rows of the table have the
\* same ticket ID.
C23_DuplicateIdRejected ==
    /\ (CreateCalled /\ RowsOfCall(pre.tickets) # {}) =>
          /\ reply.text = "False"
          /\ tickets = pre.tickets
          /\ RowsOfCall(tickets) = RowsOfCall(pre.tickets)
    /\ \A a \in tickets : \A b \in tickets : a.ticket_id = b.ticket_id => a = b

\* a ticket ID of the table was used again, by another user, at a later
\* time and with other form data: the row is the old one
C23_Witness ==
    /\ CreateCalled
    /\ reply.text = "False"
    /\ \E t \in RowsOfCall(tickets) :
          /\ t.user_id # Sender
          /\ t.created_at < now
          /\ json_loads(t.form_data) # reply.form_data
    /\ Cardinality(tickets) < MaxRows

\* C24: delete_ticket of the database handler checks the owner and deletes
\* in one piece: it returns True exactly when this call took the row with
\* the given ID and owner out of the table, so of two calls for the same
\* ticket by its owner, in either order and with nothing in between, at
\* most one returns True.
C24_DeleteTrueIffRowRemoved ==
    /\ DeleteCalled =>
          IF reply.text = "True"
          THEN /\ OwnRows(pre.tickets, Sender, msg.text) # {}
               /\ tickets = pre.tickets \ OwnRows(pre.tickets, Sender, msg.text)
               /\ OwnRows(tickets, Sender, msg.text) = {}
          ELSE /\ reply.text = "False"
               /\ tickets = pre.tickets
    /\ \A t \in tickets : \A first_ok \in BOOLEAN, second_ok \in BOOLEAN :
          LET first == db_delete_ticket(tickets, t.ticket_id, t.user_id, first_ok)
              second == db_delete_ticket(first.table, t.ticket_id, t.user_id,
                                         second_ok)
          IN /\ ~(first.result /\ second.result)
             /\ first.result => OwnRows(first.table, t.user_id, t.ticket_id) = {}

\* the owner's call deleted the ticket and returned True, the other row of
\* the table is in place, and the same call made again returns False
C24_Witness ==
    /\ DeleteCalled
    /\ reply.text = "True"
    /\ Cardinality(pre.tickets) = 2
    /\ Cardinality(tickets) = 1
    /\ RowsOfCall(tickets) = {}
    /\ ~db_delete_ticket(tickets, msg.text, Sender, TRUE).result

\* a submit that had waited for the database has run to its end
Resumed == Handled /\ "resumed" \in ran

SameEntry(before, after, user_id) ==
    /\ user_id \in DOMAIN after <=> user_id \in DOMAIN before
    /\ user_id \in DOMAIN after => after[user_id] = before[user_id]

\* C26: whatever a message of user A makes the bot do (valid and invalid
\* answers, start, cancel, a submit that succeeds or fails, list, view,
\* delete prompt, confirm), the form session, the pending deletion, the last
\* viewed ticket and the cached ticket list of every other user B are as
\* they were.
C26_OtherUsersUntouched ==
    Handled =>
        \A other \in Users \ {Sender} :
            /\ SameEntry(pre.user_forms, user_forms, other)
            /\ SameEntry(pre.delete_pending, delete_pending, other)
            /\ SameEntry(pre.last_viewed_ticket, last_viewed_ticket, other)
            /\ SameEntry(pre.user_tickets, user_tickets, other)

\* a user opened a form while another user had a form with answers, a
\* pending deletion, a viewed ticket and a cached list
C26_Witness ==
    /\ Handled
    /\ user_forms # pre.user_forms
    /\ \E other \in Users \ {Sender} :
          /\ other \in DOMAIN user_forms
          /\ user_forms[other].current_field > 0
          /\ other \in DOMAIN delete_pending
          /\ other \in DOMAIN last_viewed_ticket
          /\ other \in DOMAIN user_tickets

\* the notification of the handled message was not delivered: messages.send
\* raised
SendFailed == Handled /\ notified.kind # "" /\ ~notified.sent

StateSet == Handled /\ ran = {"set_user_state"}

\* clear_user_state was called
StateCleared == Handled /\ ran = {"clear_user_state"}

\* the keys a user has in user_states
KeysOf(states, user_id) ==
    IF user_id \in DOMAIN states THEN DOMAIN states[user_id] ELSE {}

\* the key has the same value, or none, for the user in both
SameValue(before, after, user_id, key) ==
    /\ key \in KeysOf(after, user_id) <=> key \in KeysOf(before, user_id)
    /\ key \in KeysOf(after, user_id) =>
          after[user_id][key] = before[user_id][key]

\* C29: clear_user_state(user, key) removes that key of that user and
\* nothing else; clear_user_state(user) removes all keys of that user and
\* nothing else; no user is ever left with an empty dict in user_states;
\* get_user_state returns the value set last for a key, and the default
\* when the key is absent.
C29_ClearRemovesOnlyTheKey ==
    /\ \A user_id \in DOMAIN user_states : DOMAIN user_states[user_id] # {}
    /\ StateSet =>
          /\ get_user_state(user_states, Sender, msg.text, None) = reply.ticket_id
          /\ \A user_id \in Users, key \in StateKeys :
                (user_id # Sender \/ key # msg.text) =>
                    SameValue(pre.user_states, user_states, user_id, key)
    /\ StateCleared =>
          /\ \A user_id \in Users \ {Sender}, key \in StateKeys :
                SameValue(pre.user_states, user_states, user_id, key)
          /\ IF msg.text = None
             THEN KeysOf(user_states, Sender) = {}
             ELSE /\ msg.text \notin KeysOf(user_states, Sender)
                  /\ get_user_state(user_states, Sender, msg.text, None) = None
                  /\ \A key \in StateKeys \ {msg.text} :
                        SameValue(pre.user_states, user_states, Sender, key)

\* clear_user_state(user, "") was called for a user who had another key as
\* well, and that key is gone too
C29_EmptyKeyClearsAll ==
    /\ StateCleared
    /\ msg.text = <<>>
    /\ <<>> \in KeysOf(pre.user_states, Sender)
    /\ K_PENDING \in KeysOf(pre.user_states, Sender)
    /\ Sender \notin DOMAIN user_states

\* validate_field was called
Validated == Handled /\ "validate_field" \in ran

\* C30: an answer that is empty after trimming fails with the field-empty
\* error for every field that has a validation rule, and is accepted for a
\* field whose rule is None.
C30_EmptyAnswerFollowsTheRule ==
    (Validated /\ strip(msg.text) = <<>>) =>
        IF validation(pre.field_name) = "None"
        THEN "valid" \in ran /\ reply.text = ""
        ELSE "valid" \notin ran /\ reply.text = "ERROR_FIELD_EMPTY"

\* an answer of white space only was refused as empty for a field whose
\* rule is None
C30_OptionalFieldRefusesEmpty ==
    /\ Validated
    /\ msg.text # <<>>
    /\ strip(msg.text) = <<>>
    /\ pre.field_name = FIELD_EXTRA
    /\ validation(pre.field_name) = "None"
    /\ "valid" \notin ran
    /\ reply.text = "ERROR_FIELD_EMPTY"

\* the number of decimal digits in s
RECURSIVE DigitCount(_)
DigitCount(s) ==
    IF s = <<>> THEN 0
    ELSE (IF IsDigitChar(Head(s)) THEN 1 ELSE 0) + DigitCount(Tail(s))

\* validate_field was called for the phone field with an answer that is not
\* empty
PhoneValidated ==
    Validated /\ pre.field_name = FIELD_PHONE /\ strip(msg.text) # <<>>

\* C31: for the phone field the digits left after removing every non-digit
\* are counted; the answer fails exactly when there are fewer than 10, and
\* there is no upper bound.
C31_PhoneFailsBelowTenDigits ==
    PhoneValidated =>
        IF DigitCount(msg.text) < 10
        THEN "valid" \notin ran /\ reply.text = "ERROR_INVALID_PHONE"
        ELSE "valid" \in ran /\ reply.text = ""

\* a phone number of 11 digits, written with spaces, brackets and hyphens,
\* was refused
C31_FormattedPhoneRefused ==
    /\ PhoneValidated
    /\ msg.text = S_PHONE_FORMATTED
    /\ DigitCount(msg.text) = 11
    /\ "valid" \notin ran
    /\ reply.text = "ERROR_INVALID_PHONE"

\* the last viewed ticket of the user has a value it did not have before the
\* message
ViewedWritten(user_id) ==
    /\ Handled
    /\ user_id \in DOMAIN last_viewed_ticket
    /\ (user_id \in DOMAIN pre.last_viewed_ticket =>
            last_viewed_ticket[user_id] # pre.last_viewed_ticket[user_id])

\* C32: last_viewed_ticket of a user gets a value only when a view request of
\* that user (by position or by ID) ended in showing a ticket; the ticket
\* shown exists and is owned by the user, and last_viewed_ticket is then its
\* ID.  A view request answered with invalid number or not found leaves
\* last_viewed_ticket as it was.
C32_LastViewedIsAShownOwnTicket ==
    /\ \A user_id \in Users :
          ViewedWritten(user_id) =>
              /\ user_id = Sender
              /\ "ticket_info_handler" \in ran
              /\ reply.text = "TICKET_INFO"
    /\ (Handled /\ reply.text = "TICKET_INFO") =>
          /\ "ticket_info_handler" \in ran
          /\ Sender \in DOMAIN last_viewed_ticket
          /\ last_viewed_ticket[Sender] = reply.ticket_id
          /\ \E t \in pre.tickets :
                t.ticket_id = reply.ticket_id /\ t.user_id = Sender
    /\ (Handled /\ "ticket_info_handler" \in ran /\ reply.text # "TICKET_INFO") =>
          last_viewed_ticket = pre.last_viewed_ticket

\* a user who had viewed one ticket has been shown another one, found by its
\* ID, and that one is now the last viewed
C32_Witness ==
    /\ ViewedWritten(Sender)
    /\ Sender \in DOMAIN pre.last_viewed_ticket
    /\ reply.text = "TICKET_INFO"
    /\ ~isdigit(strip(msg.text))
    /\ last_viewed_ticket[Sender] = strip(msg.text)

\* the list holds every row of the table that the user owns, each once, and
\* no other row, the newest first
ListsTheOwnNewestFirst(l, table, user_id) ==
    /\ {l[i] : i \in 1..Len(l)} = {DecodeRow(r) : r \in {t \in table : t.user_id = user_id}}
    /\ \A i, j \in 1..Len(l) : i # j => l[i] # l[j]
    /\ \A i, j \in 1..Len(l) : i < j => l[i].created_at >= l[j].created_at

\* C33: get_all_tickets(user_id) returns every stored ticket of that user and
\* no ticket of another user, the newest first by created_at; the list of
\* "Мои заявки" is such a list of the table as it was.
C33_ListIsTheOwnNewestFirst ==
    /\ \A user_id \in Users :
          \A l \in db_get_all_tickets(tickets, user_id, TRUE) :
              ListsTheOwnNewestFirst(l, tickets, user_id)
    /\ (Listed /\ reply.text = "TICKET_LIST") =>
          \E l \in db_get_all_tickets(pre.tickets, Sender, TRUE) :
              /\ ListsTheOwnNewestFirst(l, pre.tickets, Sender)
              /\ user_tickets[Sender] = [i \in 1..Len(l) |-> l[i].ticket_id]

\* a user with two tickets, written at different times, was shown the list:
\* the later ticket comes first
C33_Witness ==
    /\ Listed
    /\ reply.text = "TICKET_LIST"
    /\ user_tickets[Sender] = <<TicketId(Sender, 1), TicketId(Sender, 0)>>
    /\ \E t \in pre.tickets : t.ticket_id = TicketId(Sender, 1) /\ t.created_at = 1
    /\ \E t \in pre.tickets : t.ticket_id = TicketId(Sender, 0) /\ t.created_at = 0

\* the user has no session and a ticket of the user is in the table
Filed(user_id) == user_id \notin DOMAIN user_forms /\ HasTicket(user_id)

StoredAnswer(form, k) == form.data[k][2]

\* C35: in every form session with current field index i the stored answers
\* have exactly the configured field names as keys, in their order; the
\* answers of the fields below i are accepted values (trimmed, not empty,
\* passing the field's validation) and the answers of the fields from i on
\* are the empty string; process_answer changes the answer of the current
\* field only.
C35_AnswersFilledUpToTheIndex ==
    /\ \A user_id \in DOMAIN user_forms :
          LET form == user_forms[user_id]
          IN /\ Len(form.data) = Len(form_fields)
             /\ \A k \in 1..Len(form_fields) :
                   /\ form.data[k][1] = form_fields[k]
                   /\ IF k <= form.current_field
                      THEN /\ StoredAnswer(form, k) # <<>>
                           /\ StoredAnswer(form, k) = strip(StoredAnswer(form, k))
                           /\ validate_field(form_fields[k], StoredAnswer(form, k))[1]
                      ELSE StoredAnswer(form, k) = <<>>
    /\ (Handled /\ "process_answer" \in ran /\ HadForm) =>
          /\ Sender \in DOMAIN user_forms
          /\ \A k \in 1..Len(form_fields) :
                k # PreIndex + 1 =>
                    StoredAnswer(user_forms[Sender], k)
                        = StoredAnswer(pre.user_forms[Sender], k)
          /\ (Answered /\ AnswerValid) =>
                StoredAnswer(user_forms[Sender], PreIndex + 1) = strip(msg.text)

\* the second question was answered with a valid text that has white space
\* around it: the trimmed text is stored next to the first answer
C35_Witness ==
    /\ Answered
    /\ AnswerValid
    /\ PreIndex = 1
    /\ msg.text # strip(msg.text)
    /\ StoredAnswer(user_forms[Sender], 2) = strip(msg.text)
    /\ StoredAnswer(user_forms[Sender], 1) = StoredAnswer(pre.user_forms[Sender], 1)
    /\ user_forms[Sender].current_field = 2

\* "Заполнить заявку" arrived from a user who had a form session
StartedInSession == Handled /\ "form_start_handler" \in ran /\ HadForm

\* C36: a start-form command received while the sender has an open form
\* session leaves the current field index and the answers of that session
\* unchanged: the text of the command is not stored as an answer and the
\* form does not advance.
C36_StartCommandLeavesSession ==
    StartedInSession =>
        /\ Sender \in DOMAIN user_forms
        /\ user_forms[Sender] = pre.user_forms[Sender]

\* C36, amended: a start-form command received while the sender has an open
\* form session does not start the form again; its text is taken as the
\* answer to the open question.  Where validate_field accepts it for the
\* current field it is stored, trimmed, as the answer of that field and the
\* index goes up by one; where it does not, or the form is complete, index
\* and answers are unchanged.  The answers of the other fields, the sessions
\* of other users and everything else stay as they were.
C36_StartCommandIsTakenAsAnswer ==
    StartedInSession =>
        /\ "start_form" \notin ran
        /\ "process_answer" \in ran
        /\ Sender \in DOMAIN user_forms
        /\ last_viewed_ticket = pre.last_viewed_ticket
        /\ delete_pending = pre.delete_pending
        /\ user_tickets = pre.user_tickets
        /\ tickets = pre.tickets
        /\ \A user_id \in DOMAIN pre.user_forms \ {Sender} :
              /\ user_id \in DOMAIN user_forms
              /\ user_forms[user_id] = pre.user_forms[user_id]
        /\ IF PreIndex < Len(form_fields) /\ AnswerValid
           THEN /\ user_forms[Sender].current_field = PreIndex + 1
                /\ StoredAnswer(user_forms[Sender], PreIndex + 1) = strip(msg.text)
                /\ \A k \in 1..Len(form_fields) :
                      k # PreIndex + 1 =>
                          StoredAnswer(user_forms[Sender], k)
                              = StoredAnswer(pre.user_forms[Sender], k)
           ELSE user_forms[Sender] = pre.user_forms[Sender]

\* "Заполнить заявку" arrived at the first question and is now the stored
\* name; the second question is open
C36_Witness ==
    /\ StartedInSession
    /\ msg.text = TXT_FORM_START
    /\ PreIndex = 0
    /\ user_forms[Sender].current_field = 1
    /\ StoredAnswer(user_forms[Sender], 1) = TXT_FORM_START
    /\ reply.question = Q_ASK(form_fields[2])

\* the tickets of a user in the table
TicketsOf(user_id) == {t \in tickets : t.user_id = user_id}

Added == tickets \ pre.tickets

\* the rows the handled message has taken out of the table
Removed == pre.tickets \ tickets

DeletionTried == Handled /\ "delete_ticket" \in ran

\* the list without the entries equal to x, in the same order
RECURSIVE Without(_, _)
Without(l, x) ==
    IF l = <<>> THEN <<>>
    ELSE IF Head(l) = x THEN Without(Tail(l), x)
    ELSE <<Head(l)>> \o Without(Tail(l), x)

AnswerChangesNothing(user_id, answer, question) ==
    LET p == process_answer(user_forms, user_id, answer)
    IN p.user_forms = user_forms /\ p.error = "" /\ p.question = question

\* C40: process_answer for a session that is complete, and process_answer
\* for a user without a session, change no state: the complete session keeps
\* its index and its answers and the completion prompt is returned; no
\* session is made for a user who had none.
C40_LateAnswerChangesNothing ==
    /\ Handled => \A user_id \in Users, answer \in Texts :
          IF user_id \notin DOMAIN user_forms
          THEN AnswerChangesNothing(user_id, answer, Q_NO_FORM)
          ELSE is_form_complete(user_forms, user_id) =>
                  AnswerChangesNothing(user_id, answer, Q_COMPLETE)
    /\ (Handled /\ "process_answer" \in ran /\ HadForm
          /\ PreIndex = Len(form_fields)) =>
          /\ Untouched
          /\ user_forms[Sender].current_field = Len(form_fields)
          /\ reply.question = Q_COMPLETE
          /\ reply.error = ""

\* a text that would be a valid answer arrived for a complete form while
\* another user had no session: the form is as it was and the completion
\* prompt is the reply
C40_Witness ==
    /\ Handled
    /\ "process_answer" \in ran
    /\ HadForm
    /\ PreIndex = Len(form_fields)
    /\ \A k \in 1..Len(form_fields) : validate_field(form_fields[k], msg.text)[1]
    /\ user_forms = pre.user_forms
    /\ reply.question = Q_COMPLETE
    /\ \E user_id \in Users : user_id \notin DOMAIN user_forms
====
